---- MODULE Spec2Model ----
(***************************************************************************)
(* The u8-indexed AVL tree of src/collections/u8_avl_tree.rs: an allocator *)
(* header and an array of fixed-size nodes living in one byte buffer.      *)
(* Every handler (insert, remove, from_bytes_mut) is one action; the       *)
(* helpers of the source are operators over a tree record                  *)
(*   t = [allocator |-> header fields, nodes |-> <<node records>>].        *)
(***************************************************************************)
EXTENDS Integers, Sequences, FiniteSets, TLC

\* const SENTINEL: u8 = 0
SENTINEL == 0

\* Index arithmetic is on u8.
U8Mod == 256

\* Keys are 0..MaxKey (0 is K::default()).
MaxKey == 3

\* The buffer never holds more than MaxSlots node records.
MaxSlots == 4

Keys == 0 .. MaxKey

\* Values are never V::default() (0), so a cleared slot is told from a stored one.
Values == 1 .. MaxKey + 1

\* The tests store value = key; here key + 1, to stay off the default.
PayloadOf(key) == key + 1

\* size_of::<U8Allocator>(): the header is eight u8 fields
HeaderSize == 8

\* size_of and align_of of U8Node<u32, u32>, the node the tests use:
\* registers [u8; 4], key: u32, value: u32
NodeSize == 12

NodeAlign == 4

\* data_len
data_len(cap) == HeaderSize + cap * NodeSize

\* allocator and nodes are the header and the node records of the tree's
\* buffer; bytes is its length in bytes and its address modulo NodeAlign.
\* set is the buffer of an ArraySet: the length prefix and the value slots.
\* str is the storage of a string type: its bytes, and the view built on them.
\* last, expected and net record the calls made, and handed the slots of the
\* tree that insert has returned.
VARIABLES allocator, nodes, bytes, set, str, last, expected, net, handed

vars == <<allocator, nodes, bytes, set, str, last, expected, net, handed>>

\* No ArraySet buffer (the tree is the structure at work).
NoSet == [length |-> 0, values |-> <<>>]

\* No string storage.
NoStr == [kind |-> "none", value |-> <<>>, arg |-> <<>>]

----------------------------------------------------------------------------
\* Option<T>
None == [some |-> FALSE, val |-> 0]

Some(x) == [some |-> TRUE, val |-> x]

Max(a, b) == IF a >= b THEN a ELSE b

\* A zeroed node record (registers [0, 0, 0, 0], key and value zero bytes).
ZeroNode == [Left |-> 0, Right |-> 0, Height |-> 0, key |-> 0, value |-> 0]

\* U8Allocator::get_field / set_field
get_field(t, field) == t.allocator[field]

set_field(t, field, value) == [t EXCEPT !.allocator[field] = value]

\* U8Node::get_register / set_register through node!(nodes, index)
get_register(t, index, register) == t.nodes[index][register]

set_register(t, index, register, value) ==
    [t EXCEPT !.nodes[index][register] = value]

\* node!(array, index) = array[(index - 1) as usize]: index 0 or an index past
\* the slice aborts (subtraction overflow, or the slice bounds check).
ValidIndex(t, index) == index \in 1 .. Len(t.nodes)

\* U8Allocator::initialize
U8Allocator_initialize(cap) ==
    [root |-> SENTINEL, size |-> 0, capacity |-> cap,
     free_list_head |-> 1, sequence |-> 1]

\* U8Node::initialize
U8Node_initialize(key, value) ==
    [Left |-> SENTINEL, Right |-> SENTINEL, Height |-> 0,
     key |-> key, value |-> value]

capacity(t) == get_field(t, "capacity")

len(t) == get_field(t, "size")

is_full(t) == get_field(t, "size") >= get_field(t, "capacity")

is_empty(t) == get_field(t, "size") = 0

\* find with the equality test lost: an equal key is looked for on the left
find_branch_no_equal(key, current) ==
    IF key <= current THEN "Left" ELSE "Right"

\* find: the comparison that picks the register to follow
find_branch(key, current) ==
    IF key < current THEN "Left"
    ELSE IF key > current THEN "Right"
    ELSE "Equal"

RECURSIVE find_loop(_, _, _)
find_loop(t, key, reference_node) ==
    IF reference_node = SENTINEL THEN None
    ELSE LET c == find_branch(key, t.nodes[reference_node].key)
         IN IF c = "Equal" THEN Some(reference_node)
            ELSE find_loop(t, key, get_register(t, reference_node, c))

find(t, key) == find_loop(t, key, get_field(t, "root"))

get(t, key) ==
    LET f == find(t, key)
    IN IF f.some THEN Some(t.nodes[f.val].value) ELSE None

contains(t, key) == find(t, key).some

\* lowest that stops at the root
lowest_loop_stops_at_root(t, node) == node

RECURSIVE lowest_loop(_, _)
lowest_loop(t, node) ==
    IF get_register(t, node, "Left") # SENTINEL
    THEN lowest_loop(t, get_register(t, node, "Left"))
    ELSE node

lowest(t) ==
    LET node == get_field(t, "root")
    IN IF node = SENTINEL THEN None
       ELSE Some(t.nodes[lowest_loop(t, node)].key)

----------------------------------------------------------------------------
\* update_height
update_height(t, index) ==
    LET left == get_register(t, index, "Left")
        right == get_register(t, index, "Right")
        height ==
            IF left = SENTINEL /\ right = SENTINEL THEN 0
            ELSE LET left_height == IF left # SENTINEL
                                    THEN get_register(t, left, "Height") ELSE 0
                     right_height == IF right # SENTINEL
                                     THEN get_register(t, right, "Height") ELSE 0
                 IN (Max(left_height, right_height) + 1) % U8Mod
    IN set_register(t, index, "Height", height)

\* update_child
update_child(t, parent, branch, child) ==
    update_height(set_register(t, parent, branch, child), parent)

\* balance_factor
balance_factor(t, left, right) ==
    LET left_height == IF left # SENTINEL
                       THEN get_register(t, left, "Height") + 1 ELSE 0
        right_height == IF right # SENTINEL
                        THEN get_register(t, right, "Height") + 1 ELSE 0
    IN left_height - right_height

\* left_rotate handing the node its right child's right subtree, not the left
left_rotate_wrong_child(t, index) ==
    LET right == get_register(t, index, "Right")
        right_right == get_register(t, right, "Right")
        t1 == update_child(t, index, "Right", right_right)
        t2 == update_child(t1, right, "Left", index)
    IN [t |-> t2, index |-> right]

\* left_rotate: the tree after the rotation and the index returned
left_rotate(t, index) ==
    LET right == get_register(t, index, "Right")
        right_left == get_register(t, right, "Left")
        t1 == update_child(t, index, "Right", right_left)
        t2 == update_child(t1, right, "Left", index)
    IN [t |-> t2, index |-> right]

\* right_rotate that leaves the height of the node it moves down as it was
right_rotate_stale_height(t, index) ==
    LET left == get_register(t, index, "Left")
        left_right == get_register(t, left, "Right")
        t1 == set_register(t, index, "Left", left_right)
        t2 == update_child(t1, left, "Right", index)
    IN [t |-> t2, index |-> left]

\* right_rotate
right_rotate(t, index) ==
    LET left == get_register(t, index, "Left")
        left_right == get_register(t, left, "Right")
        t1 == update_child(t, index, "Left", left_right)
        t2 == update_child(t1, left, "Right", index)
    IN [t |-> t2, index |-> left]

\* A path entry (parent, branch, child).
Ancestor(parent, branch, child) ==
    [parent |-> parent, branch |-> branch, child |-> child]

\* Whether the path entry's node is out of balance (a rotation is due).
needs_rotation(t, child) ==
    LET bf == balance_factor(t, get_register(t, child, "Left"),
                             get_register(t, child, "Right"))
    IN bf > 1 \/ bf < -1

\* rebalance: the left subtree is too high. A left child that leans right is
\* rotated left first; then the node is rotated right.
rotate_left_heavy(t, child, left) ==
    LET left_left == get_register(t, left, "Left")
        left_right == get_register(t, left, "Right")
        r == left_rotate(t, left)
    IN IF balance_factor(t, left_left, left_right) < 0
       THEN right_rotate(update_child(r.t, child, "Left", r.index), child)
       ELSE right_rotate(t, child)

\* rebalance: the right subtree is too high (the mirror image).
rotate_right_heavy(t, child, right) ==
    LET right_left == get_register(t, right, "Left")
        right_right == get_register(t, right, "Right")
        r == right_rotate(t, right)
    IN IF balance_factor(t, right_left, right_right) > 0
       THEN left_rotate(update_child(r.t, child, "Right", r.index), child)
       ELSE left_rotate(t, child)

\* rebalance: the rotated subtree is hung on the path entry's parent, or made
\* the root when the entry has no parent.
relink_rotated(rotated, e) ==
    IF e.parent.some
    THEN update_child(rotated.t, e.parent.val, e.branch, rotated.index)
    ELSE update_height(set_field(rotated.t, "root", rotated.index),
                       rotated.index)

\* rebalance that only refreshes heights and never rotates
rebalance_step_no_rotation(t, e) == update_height(t, e.child)

\* One iteration of the loop of rebalance, on path entry e.
rebalance_step(t, e) ==
    LET left == get_register(t, e.child, "Left")
        right == get_register(t, e.child, "Right")
        bf == balance_factor(t, left, right)
    IN IF bf > 1 THEN relink_rotated(rotate_left_heavy(t, e.child, left), e)
       ELSE IF bf < -1
       THEN relink_rotated(rotate_right_heavy(t, e.child, right), e)
       ELSE update_height(t, e.child)

\* rebalance: the path is visited in reverse order
RECURSIVE rebalance(_, _)
rebalance(t, path) ==
    IF path = <<>> THEN t
    ELSE rebalance(rebalance_step(t, path[Len(path)]),
                   SubSeq(path, 1, Len(path) - 1))

\* The number of rotations rebalance performs on the path (for witnesses).
RECURSIVE rotations(_, _)
rotations(t, path) ==
    IF path = <<>> THEN 0
    ELSE (IF needs_rotation(t, path[Len(path)].child) THEN 1 ELSE 0)
         + rotations(rebalance_step(t, path[Len(path)]),
                     SubSeq(path, 1, Len(path) - 1))

----------------------------------------------------------------------------
\* The result of a call: the tree it leaves, what it returns, whether it
\* aborted (panic), and the tree and path handed to rebalance.
Result(t, ret, panic, pre, path) ==
    [t |-> t, ret |-> ret, panic |-> panic, pre |-> pre, path |-> path]

\* size + 1 and size - 1 on the u8 field
add_to_size(t, delta) ==
    set_field(t, "size", (get_field(t, "size") + delta) % U8Mod)

\* add: the new entry is written into the slot taken
write_entry(t, free_node, key, value) ==
    add_to_size([t EXCEPT !.nodes[free_node].key = key,
                          !.nodes[free_node].value = value,
                          !.nodes[free_node].Height = 0], 1)

\* the reuse that leaves free_list_head on the slot it has just handed out
take_slot_keeps_head(t, free_node, sequence) ==
    IF free_node = sequence
    THEN set_field(set_field(t, "sequence", (sequence + 1) % U8Mod),
                   "free_list_head", (sequence + 1) % U8Mod)
    ELSE t

\* add: the slot is taken from the sequence (bump) or from the free list
take_slot(t, free_node, sequence) ==
    IF free_node = sequence
    THEN set_field(set_field(t, "sequence", (sequence + 1) % U8Mod),
                   "free_list_head", (sequence + 1) % U8Mod)
    ELSE set_field(t, "free_list_head", get_register(t, free_node, "Height"))

\* add: it panics when no slot is left, and node!(nodes, free_node) panics
\* when free_node is 0 or past the array; nothing is written then
add_panics(t, free_node, sequence) ==
    \/ free_node = sequence
       /\ (sequence - 1) % U8Mod = get_field(t, "capacity")
    \/ ~ValidIndex(t, free_node)

\* add: the tree with the entry added and the index it got
add(t, key, value) ==
    LET free_node == get_field(t, "free_list_head")
        sequence == get_field(t, "sequence")
    IN IF add_panics(t, free_node, sequence)
       THEN [t |-> t, index |-> SENTINEL, panic |-> TRUE]
       ELSE [t |-> write_entry(take_slot(t, free_node, sequence),
                               free_node, key, value),
             index |-> free_node, panic |-> FALSE]

\* insert: the comparison that picks the branch
insert_branch(key, current_key) ==
    IF key < current_key THEN "Left"
    ELSE IF key > current_key THEN "Right"
    ELSE "Equal"

\* insert updating the value in place on an exact key match
insert_duplicate_update(t, reference_node, value) ==
    Result([t EXCEPT !.nodes[reference_node].value = value], None, FALSE,
           t, <<>>)

\* insert: an exact key match returns None, nothing written
insert_duplicate(t, reference_node, value) == Result(t, None, FALSE, t, <<>>)

\* insert: the tree is full at the NIL child: None, nothing written
insert_full(t) == Result(t, None, FALSE, t, <<>>)

\* insert: the path is rebalanced and the index returned
insert_rebalance(linked, path, index) ==
    Result(rebalance(linked, path), Some(index), FALSE, linked, path)

\* insert: the node added (a) is linked below its parent
insert_link(t, a, parent, branch, path) ==
    IF a.panic THEN Result(t, None, TRUE, t, <<>>)
    ELSE insert_rebalance(update_child(a.t, parent, branch, a.index),
                          path, a.index)

\* insert: the descent loop
RECURSIVE insert_loop(_, _, _, _, _)
insert_loop(t, key, value, reference_node, path) ==
    LET branch == insert_branch(key, t.nodes[reference_node].key)
        next == get_register(t, reference_node, branch)
    IN IF branch = "Equal" THEN insert_duplicate(t, reference_node, value)
       ELSE IF next = SENTINEL
       THEN IF is_full(t) THEN insert_full(t)
            ELSE insert_link(t, add(t, key, value), reference_node, branch,
                             path)
       ELSE insert_loop(t, key, value, next,
                Append(path, Ancestor(Some(reference_node), branch, next)))

\* insert: the tree is empty and the node added (a) becomes the root
insert_root(t, a) ==
    IF a.panic THEN Result(t, None, TRUE, t, <<>>)
    ELSE Result(set_field(a.t, "root", a.index), Some(a.index), FALSE,
                a.t, <<>>)

\* insert
insert(t, key, value) ==
    LET reference_node == get_field(t, "root")
    IN IF reference_node = SENTINEL THEN insert_root(t, add(t, key, value))
       ELSE insert_loop(t, key, value, reference_node,
                        <<Ancestor(None, "None", reference_node)>>)

\* the push that forgets the slots freed before
push_free_drops_chain(t, index, free_list_head) ==
    set_field(set_register(t, index, "Height", get_field(t, "sequence")),
              "free_list_head", index)

\* remove_node: the slot is pushed on the free list
push_free(t, index, free_list_head) ==
    set_field(set_register(t, index, "Height", free_list_head),
              "free_list_head", index)

\* remove_node reading the value after the slot was cleared
remove_node_read_after_clear(t, index) ==
    IF index = SENTINEL THEN [t |-> t, ret |-> None]
    ELSE [t |-> add_to_size(
                    push_free([t EXCEPT !.nodes[index] = U8Node_initialize(0, 0)],
                              index, get_field(t, "free_list_head")), -1),
          ret |-> Some(U8Node_initialize(0, 0).value)]

\* remove_node that leaves the size as it was
remove_node_keep_size(t, index) ==
    IF index = SENTINEL THEN [t |-> t, ret |-> None]
    ELSE [t |-> push_free([t EXCEPT !.nodes[index] = U8Node_initialize(0, 0)],
                          index, get_field(t, "free_list_head")),
          ret |-> Some(t.nodes[index].value)]

\* remove_node clearing the key and the value but not the registers
remove_node_keeps_registers(t, index) ==
    IF index = SENTINEL THEN [t |-> t, ret |-> None]
    ELSE [t |-> add_to_size(
                    push_free([t EXCEPT !.nodes[index].key = 0,
                                        !.nodes[index].value = 0],
                              index, get_field(t, "free_list_head")), -1),
          ret |-> Some(t.nodes[index].value)]

\* remove_node: the tree after the slot is freed, and the value returned
remove_node(t, index) ==
    IF index = SENTINEL THEN [t |-> t, ret |-> None]
    ELSE [t |-> add_to_size(
                    push_free([t EXCEPT !.nodes[index] = U8Node_initialize(0, 0)],
                              index, get_field(t, "free_list_head")), -1),
          ret |-> Some(t.nodes[index].value)]

\* remove: the comparison that picks the branch
remove_branch(key, current_key) ==
    IF key < current_key THEN "Left"
    ELSE IF key > current_key THEN "Right"
    ELSE "Equal"

\* remove: the descent loop; yields the node found (SENTINEL if none) and the path
RECURSIVE remove_loop(_, _, _, _)
remove_loop(t, key, node_index, path) ==
    IF node_index = SENTINEL THEN [node_index |-> node_index, path |-> path]
    ELSE LET branch == remove_branch(key, t.nodes[node_index].key)
             next == get_register(t, node_index, branch)
         IN IF branch = "Equal"
            THEN [node_index |-> node_index, path |-> path]
            ELSE remove_loop(t, key, next,
                     Append(path, Ancestor(Some(node_index), branch, next)))

\* the walk that stops at the right child and never descends to its left
leftmost_loop_no_descent(t, leftmost, leftmost_parent, inner_path) ==
    [leftmost |-> leftmost, leftmost_parent |-> leftmost_parent,
     inner_path |-> inner_path]

\* remove: the walk to the leftmost descendant of the right child
RECURSIVE leftmost_loop(_, _, _, _)
leftmost_loop(t, leftmost, leftmost_parent, inner_path) ==
    IF get_register(t, leftmost, "Left") # SENTINEL
    THEN leftmost_loop(t, get_register(t, leftmost, "Left"), leftmost,
             Append(inner_path,
                    Ancestor(Some(leftmost), "Left",
                             get_register(t, leftmost, "Left"))))
    ELSE [leftmost |-> leftmost, leftmost_parent |-> leftmost_parent,
          inner_path |-> inner_path]

\* update_child under a condition of the caller
update_child_if(cond, t, parent, branch, child) ==
    IF cond THEN update_child(t, parent, branch, child) ELSE t

\* the path that leaves out the entry of the right child
spliced_path_without_right(path, w, right) ==
    LET top == path[Len(path)]
        path2 == Append(SubSeq(path, 1, Len(path) - 1),
                        Ancestor(top.parent, top.branch, w.leftmost))
        inner == IF w.inner_path # <<>>
                 THEN SubSeq(w.inner_path, 1, Len(w.inner_path) - 1)
                 ELSE w.inner_path
    IN path2 \o inner

\* remove, two children: the path with the removed node's entry replaced by
\* the successor, then the right child, then the walk minus its last entry
spliced_path(path, w, right) ==
    LET top == path[Len(path)]
        path2 == Append(SubSeq(path, 1, Len(path) - 1),
                        Ancestor(top.parent, top.branch, w.leftmost))
        path3 == IF right # w.leftmost
                 THEN Append(path2, Ancestor(Some(w.leftmost), "Right", right))
                 ELSE path2
        inner == IF w.inner_path # <<>>
                 THEN SubSeq(w.inner_path, 1, Len(w.inner_path) - 1)
                 ELSE w.inner_path
    IN path3 \o inner

\* the splice that copies the successor's key and value into the removed
\* node's slot and unlinks the successor's slot
splice_successor_copies_payload(t, path, left, right, w) ==
    LET node == path[Len(path)].child
        copied == [t EXCEPT !.nodes[node].key = t.nodes[w.leftmost].key,
                            !.nodes[node].value = t.nodes[w.leftmost].value]
    IN [t |-> IF w.leftmost_parent # SENTINEL
              THEN update_child(copied, w.leftmost_parent, "Left",
                                get_register(t, w.leftmost, "Right"))
              ELSE update_child(copied, node, "Right",
                                get_register(t, w.leftmost, "Right")),
        path |-> path, replacement |-> node]

\* remove, two children: the successor found by the walk w is spliced out and
\* takes the removed node's place
splice_successor(t, path, left, right, w) ==
    LET top == path[Len(path)]
        t1 == update_child_if(w.leftmost_parent # SENTINEL, t,
                              w.leftmost_parent, "Left",
                              get_register(t, w.leftmost, "Right"))
        t2 == update_child(t1, w.leftmost, "Left", left)
        t3 == update_child_if(right # w.leftmost, t2, w.leftmost, "Right",
                              right)
        t4 == update_child_if(top.parent.some, t3, top.parent.val, top.branch,
                              w.leftmost)
    IN [t |-> t4, path |-> spliced_path(path, w, right),
        replacement |-> w.leftmost]

\* remove: the node has two children; its in-order successor takes its place
remove_two_children(t, path, left, right) ==
    splice_successor(t, path, left, right,
                     leftmost_loop(t, right, SENTINEL, <<>>))

\* remove, at most one child: the child takes the node's place under the parent
replace_by_child(t, path, child) ==
    LET top == path[Len(path)]
        path1 == SubSeq(path, 1, Len(path) - 1)
    IN [t |-> update_child_if(top.parent.some, t, top.parent.val, top.branch,
                              child),
        path |-> IF top.parent.some /\ child # SENTINEL
                 THEN Append(path1, Ancestor(top.parent, top.branch, child))
                 ELSE path1,
        replacement |-> child]

\* remove: the node has at most one child, which takes its place
remove_one_child(t, path, left, right) ==
    replace_by_child(t, path,
        IF left = SENTINEL /\ right = SENTINEL THEN SENTINEL
        ELSE IF left # SENTINEL THEN left
        ELSE right)

\* the not-found return taken after the size was decremented
remove_not_found_counted(t) == Result(add_to_size(t, -1), None, FALSE, t, <<>>)

\* remove: the key was not found
remove_not_found(t) == Result(t, None, FALSE, t, <<>>)

\* the removal that leaves the root field on the removed node
replace_root_keeps_root(s, node_index) == s.t

\* remove: the root field follows when the removed node was the root
replace_root(s, node_index) ==
    IF node_index = get_field(s.t, "root")
    THEN set_field(s.t, "root", s.replacement)
    ELSE s.t

\* remove: what the call returns, from what remove_node returned
remove_result(freed, pre, path) == Result(freed.t, freed.ret, FALSE, pre, path)

\* remove: the path is rebalanced, then the node's slot is freed
rebalance_and_free(t, path, node_index) ==
    remove_result(remove_node(rebalance(t, path), node_index), t, path)

\* the removal that frees the slot of the node that took the removed node's
\* place, when there is one
remove_unlinked_frees_replacement(s, node_index) ==
    rebalance_and_free(replace_root(s, node_index), s.path,
                       IF s.replacement # SENTINEL THEN s.replacement
                       ELSE node_index)

\* remove: the node found is unlinked (s), the path rebalanced, the slot freed
remove_unlinked(s, node_index) ==
    rebalance_and_free(replace_root(s, node_index), s.path, node_index)

\* remove: the node found at node_index is taken out
remove_found(t, node_index, path) ==
    LET left == get_register(t, node_index, "Left")
        right == get_register(t, node_index, "Right")
    IN IF left # SENTINEL /\ right # SENTINEL
       THEN remove_unlinked(remove_two_children(t, path, left, right),
                            node_index)
       ELSE remove_unlinked(remove_one_child(t, path, left, right),
                            node_index)

\* remove: after the descent d
remove_descended(t, d) ==
    IF d.node_index = SENTINEL THEN remove_not_found(t)
    ELSE remove_found(t, d.node_index, d.path)

\* remove
remove(t, key) ==
    LET root == get_field(t, "root")
    IN IF root = SENTINEL THEN remove_not_found(t)
       ELSE remove_descended(t,
                remove_loop(t, key, root, <<Ancestor(None, "None", root)>>))

\* the loop that takes i, not i + 1, for the index of the slot
RECURSIVE absorb_loop_index_i(_, _, _)
absorb_loop_index_i(t, i, end) ==
    IF i >= end THEN t
    ELSE absorb_loop_index_i(push_free(t, i % U8Mod,
                                       get_field(t, "free_list_head")),
                             i + 1, end)

\* from_bytes_mut: the loop that pushes the appended slots on the free list
RECURSIVE absorb_loop(_, _, _)
absorb_loop(t, i, end) ==
    IF i >= end THEN t
    ELSE absorb_loop(push_free(t, (i + 1) % U8Mod,
                               get_field(t, "free_list_head")),
                     i + 1, end)

\* from_bytes_mut: the tree is not packed; the new slots go on the free list
absorb_not_packed(t, current, n) ==
    set_field(absorb_loop(t, current, n), "sequence", (n + 1) % U8Mod)

\* the view that compares the slice with the size, not with the capacity
from_bytes_mut_compares_size(t) ==
    LET current == get_field(t, "size")
        n == Len(t.nodes) % U8Mod
    IN IF Len(t.nodes) > current
       THEN IF get_field(t, "sequence") # get_field(t, "free_list_head")
            THEN absorb_not_packed(set_field(t, "capacity", n), current, n)
            ELSE set_field(t, "capacity", n)
       ELSE t

\* the view that never compares the slice with the recorded capacity
from_bytes_mut_no_absorb(t) == t

\* the view that puts the new slots on the free list of a packed tree too
from_bytes_mut_always_absorbs(t) ==
    LET current == get_field(t, "capacity")
        n == Len(t.nodes) % U8Mod
    IN IF Len(t.nodes) > current
       THEN absorb_not_packed(set_field(t, "capacity", n), current, n)
       ELSE t

\* from_bytes_mut over a buffer whose node slice is t.nodes
from_bytes_mut(t) ==
    LET current == get_field(t, "capacity")
        n == Len(t.nodes) % U8Mod
    IN IF Len(t.nodes) > current
       THEN IF get_field(t, "sequence") # get_field(t, "free_list_head")
            THEN absorb_not_packed(set_field(t, "capacity", n), current, n)
            ELSE set_field(t, "capacity", n)
       ELSE t

----------------------------------------------------------------------------
\* The tree held by the buffer.
Tree == [allocator |-> allocator, nodes |-> nodes]

\* How the node found for a key sits in the tree (for witnesses).
RemoveKind(t, key) ==
    LET f == find(t, key)
        l == get_register(t, f.val, "Left")
        r == get_register(t, f.val, "Right")
    IN IF ~f.some THEN "absent"
       ELSE IF l # SENTINEL /\ r # SENTINEL
       THEN IF get_register(t, r, "Left") # SENTINEL THEN "two_deep" ELSE "two"
       ELSE IF l = SENTINEL /\ r = SENTINEL THEN "leaf"
       ELSE "one"

\* What an insert of the key meets (for witnesses).
InsertKind(t, key) ==
    IF contains(t, key)
    THEN IF is_full(t) THEN "duplicate_full" ELSE "duplicate"
    ELSE IF is_full(t) THEN "full" ELSE "new"

\* What a view over an enlarged buffer meets (for witnesses): a full tree,
\* or one with room left, with or without slots on the free list.
GrowKind(t) ==
    IF get_field(t, "free_list_head") = get_field(t, "sequence")
    THEN IF is_full(t) THEN "full" ELSE "packed"
    ELSE IF is_full(t) THEN "full_not_packed" ELSE "not_packed"

\* The record of the last call: the operation, its arguments, what it
\* returned, whether it aborted, and how many rotations it made.
Last(op, key, value, r, kind) ==
    [op |-> op, key |-> key, value |-> value, ret |-> r.ret,
     panic |-> r.panic, kind |-> kind, rot |-> rotations(r.pre, r.path)]

\* A zeroed buffer sized for cap nodes, viewed and initialized with cap.
Init ==
    \E cap \in 0 .. MaxSlots :
        /\ allocator = U8Allocator_initialize(cap)
        /\ nodes = [i \in 1 .. cap |-> ZeroNode]
        /\ bytes = [len |-> data_len(cap), addr |-> 0]
        /\ set = NoSet
        /\ str = NoStr
        /\ last = [op |-> "initialize", key |-> 0, value |-> 0, ret |-> None,
                   panic |-> FALSE, kind |-> "none", rot |-> 0]
        /\ expected = [k \in Keys |-> None]
        /\ net = 0
        /\ handed = {}

\* The values a caller offers: a key comes with its payload; a key that is
\* already there is also offered with the payload of the next key.
Offered(key, value) ==
    \/ value = PayloadOf(key)
    \/ contains(Tree, key) /\ value = PayloadOf((key + 1) % (MaxKey + 1))

\* The buffer and the records after a call that returned r.
Returned(r, op, key, value, kind) ==
    /\ allocator' = r.t.allocator
    /\ nodes' = r.t.nodes
    /\ UNCHANGED <<bytes, set, str>>
    /\ last' = Last(op, key, value, r, kind)
    /\ expected' = IF ~r.ret.some THEN expected
                   ELSE IF op = "insert"
                   THEN [expected EXCEPT ![key] = Some(value)]
                   ELSE [expected EXCEPT ![key] = None]
    /\ net' = IF ~r.ret.some THEN net
              ELSE IF op = "insert" THEN net + 1 ELSE net - 1
    /\ handed' = IF op = "insert" /\ r.ret.some
                 THEN handed \cup {r.ret.val} ELSE handed

Insert(key, value) ==
    /\ ~last.panic
    /\ Offered(key, value)
    /\ Returned(insert(Tree, key, value), "insert", key, value,
                InsertKind(Tree, key))

Remove(key) ==
    /\ ~last.panic
    /\ Returned(remove(Tree, key), "remove", key, 0, RemoveKind(Tree, key))

\* The buffer and the records after the view t was built over more slots.
Viewed(t, kind) ==
    /\ allocator' = t.allocator
    /\ nodes' = t.nodes
    /\ bytes' = [bytes EXCEPT !.len = data_len(Len(t.nodes))]
    /\ UNCHANGED <<set, str>>
    /\ last' = [op |-> "grow", key |-> 0, value |-> 0, ret |-> None,
                panic |-> FALSE, kind |-> kind, rot |-> 0]
    /\ UNCHANGED <<expected, net, handed>>

\* The buffer is enlarged by m zeroed node records and viewed again.
Grow(m) ==
    /\ ~last.panic
    /\ Len(nodes) + m <= MaxSlots
    /\ Viewed(from_bytes_mut([allocator |-> allocator,
                              nodes |-> nodes \o [i \in 1 .. m |-> ZeroNode]]),
              GrowKind(Tree))

\* insert and remove over a buffer of fixed size
Next ==
    \/ \E key \in Keys, value \in Values : Insert(key, value)
    \/ \E key \in Keys : Remove(key)

Spec == Init /\ [][Next]_vars

\* insert and remove, with the buffer enlarged at any point
NextGrow ==
    \/ \E key \in Keys, value \in Values : Insert(key, value)
    \/ \E key \in Keys : Remove(key)
    \/ \E m \in 1 .. MaxSlots : Grow(m)

SpecGrow == Init /\ [][NextGrow]_vars

\* the read-only view that absorbs the surplus like the mutable one
from_bytes_absorbs(t) == from_bytes_mut(t)

\* U8AVLTree::from_bytes: the read-only view refers to the header and the
\* node slice as they are in the buffer
from_bytes(t) == [allocator |-> t.allocator, nodes |-> t.nodes]

\* The buffer and the records after a read-only view t was built over it.
Observed(t, kind) ==
    /\ allocator' = t.allocator
    /\ nodes' = t.nodes
    /\ bytes' = [bytes EXCEPT !.len = data_len(Len(t.nodes))]
    /\ UNCHANGED <<set, str>>
    /\ last' = [op |-> "from_bytes", key |-> 0, value |-> 0, ret |-> None,
                panic |-> FALSE, kind |-> kind, rot |-> 0]
    /\ UNCHANGED <<expected, net, handed>>

\* The buffer is enlarged by m zeroed node records and viewed read-only.
ReadOnly(m) ==
    /\ ~last.panic
    /\ Len(nodes) + m <= MaxSlots
    /\ Observed(from_bytes([allocator |-> allocator,
                            nodes |-> nodes \o [i \in 1 .. m |-> ZeroNode]]),
                GrowKind(Tree))

\* The buffer has no slots the header does not count: a mutable view over it
\* absorbs nothing.
Absorbed == Len(nodes) = capacity(Tree)

\* insert and remove through mutable views, with the buffer enlarged at any
\* point and viewed mutably (which absorbs the new slots) or read-only
NextView ==
    \/ \E key \in Keys, value \in Values : Absorbed /\ Insert(key, value)
    \/ \E key \in Keys : Absorbed /\ Remove(key)
    \/ \E m \in 0 .. MaxSlots : Grow(m)
    \/ \E m \in 1 .. MaxSlots : ReadOnly(m)

SpecView == Init /\ [][NextView]_vars

\* The largest capacity the u8 header field holds.
MaxCapacity == U8Mod - 1

\* Keys for a tree of MaxCapacity slots, one more than it has room for.
FillKeys == 0 .. MaxCapacity

\* add computes sequence + 1 and size + 1 on u8: a build with overflow checks
\* (debug, or overflow-checks = true) panics when the sum passes 255, before
\* anything is written; a build without them wraps.
add_overflows(t) ==
    \/ /\ get_field(t, "free_list_head") = get_field(t, "sequence")
       /\ (get_field(t, "sequence") - 1) % U8Mod # get_field(t, "capacity")
       /\ get_field(t, "sequence") + 1 >= U8Mod
    \/ get_field(t, "size") + 1 >= U8Mod

\* insert gets as far as add: the key is new, and the tree is empty or not full
reaches_add(t, key) ==
    /\ ~contains(t, key)
    /\ get_field(t, "root") = SENTINEL \/ ~is_full(t)

\* insert in a build with overflow checks, when add overflows: the call aborts
InsertChecked(key, value) ==
    /\ ~last.panic
    /\ Offered(key, value)
    /\ reaches_add(Tree, key)
    /\ add_overflows(Tree)
    /\ Returned(Result(Tree, None, TRUE, Tree, <<>>), "insert", key, value,
                "overflow")

\* A zeroed buffer of MaxCapacity node slots, initialized with MaxCapacity.
InitFill ==
    /\ allocator = U8Allocator_initialize(MaxCapacity)
    /\ nodes = [i \in 1 .. MaxCapacity |-> ZeroNode]
    /\ bytes = [len |-> data_len(MaxCapacity), addr |-> 0]
    /\ set = NoSet
    /\ str = NoStr
    /\ last = [op |-> "initialize", key |-> 0, value |-> 0, ret |-> None,
               panic |-> FALSE, kind |-> "none", rot |-> 0]
    /\ expected = [k \in FillKeys |-> None]
    /\ net = 0
    /\ handed = {}

\* The key a fill takes next: the keys go up from 0 or down from MaxCapacity,
\* as the tests fill a tree in key order; the first insert picks the direction.
FillNext ==
    IF net = 0 THEN {0, MaxCapacity}
    ELSE IF expected[0].some THEN {net}
    ELSE {MaxCapacity - net}

\* a tree of MaxCapacity slots is filled with distinct keys, in either build
NextFill ==
    \/ \E key \in FillNext : Insert(key, PayloadOf(key))
    \/ \E key \in FillNext : InsertChecked(key, PayloadOf(key))

SpecFill == InitFill /\ [][NextFill]_vars

\* The buffers offered to the constructors are at most MaxBytes bytes long.
MaxBytes == 40

\* slice::split_at(mid) panics when mid is past the end of the slice
split_at_panics(length, mid) == mid > length

\* bytemuck::try_cast_slice from bytes to node records: the address has to
\* be aligned for the node, and the bytes a whole number of records
try_cast_slice(length, addr) ==
    IF addr % NodeAlign # 0 THEN "TargetAlignmentGreaterAndInputNotAligned"
    ELSE IF length % NodeSize # 0 THEN "OutputSliceWouldHaveSlop"
    ELSE "Ok"

\* from_bytes and from_bytes_mut up to the cast of the node slice, over a
\* buffer b: split_at, bytemuck::from_bytes (eight bytes, alignment 1: no
\* failure) and bytemuck::cast_slice, which panics where try_cast_slice fails.
\* Both constructors return Self: there is no error value to return.
view_outcome(b) ==
    IF split_at_panics(b.len, HeaderSize) THEN "abort"
    ELSE IF try_cast_slice(b.len - HeaderSize,
                           (b.addr + HeaderSize) % NodeAlign) # "Ok"
    THEN "abort"
    ELSE "view"

\* The buffer is too short for the header, or holds a broken node record,
\* or its node records would be misaligned.
Malformed(b) ==
    \/ b.len < HeaderSize
    \/ (b.len - HeaderSize) % NodeSize # 0
    \/ (b.addr + HeaderSize) % NodeAlign # 0

\* A zeroed buffer of any length up to MaxBytes, at any address.
InitBytes ==
    \E n \in 0 .. MaxBytes, a \in 0 .. NodeAlign - 1 :
        /\ bytes = [len |-> n, addr |-> a]
        /\ set = NoSet
        /\ str = NoStr
        /\ allocator = [root |-> 0, size |-> 0, capacity |-> 0,
                        free_list_head |-> 0, sequence |-> 0]
        /\ nodes = [i \in 1 .. (IF n < HeaderSize THEN 0
                                ELSE (n - HeaderSize) \div NodeSize)
                      |-> ZeroNode]
        /\ last = [op |-> "buffer", key |-> 0, value |-> 0, ret |-> None,
                   panic |-> FALSE, kind |-> "none", rot |-> 0]
        /\ expected = [k \in Keys |-> None]
        /\ net = 0
        /\ handed = {}

\* The buffer after a constructor ended with outcome: a mutable view absorbs
\* the node slots; an abort and a read-only view write nothing.
Constructed(op, outcome) ==
    /\ allocator' = IF op = "from_bytes_mut" /\ outcome = "view"
                    THEN from_bytes_mut(Tree).allocator
                    ELSE allocator
    /\ nodes' = nodes
    /\ last' = [op |-> op, key |-> 0, value |-> 0, ret |-> None,
                panic |-> outcome = "abort", kind |-> outcome, rot |-> 0]
    /\ UNCHANGED <<bytes, set, str, expected, net, handed>>

\* U8AVLTree::from_bytes over the buffer
ViewBytes ==
    /\ ~last.panic
    /\ Constructed("from_bytes", view_outcome(bytes))

\* U8AVLTreeMut::from_bytes_mut over the buffer
ViewBytesMut ==
    /\ ~last.panic
    /\ Constructed("from_bytes_mut", view_outcome(bytes))

NextBytes == ViewBytes \/ ViewBytesMut

SpecBytes == InitBytes /\ [][NextBytes]_vars

----------------------------------------------------------------------------
\* The sorted array set of src/collections/array_set.rs, with a u8 length
\* prefix and u8 values: s = [length |-> prefix, values |-> <<value slots>>].
\* The source indexes the slots from 0; slot i of the source is values[i + 1].

\* An ArraySet buffer has at most MaxSetSlots value slots.
MaxSetSlots == 4

\* The values offered are 0..MaxSetValue.
MaxSetValue == 4

SetValues == 0 .. MaxSetValue

\* usize::saturating_sub (saturating_add never saturates on these indices)
saturating_sub(a, b) == IF a >= b THEN a - b ELSE 0

\* ArraySet::len, is_empty, is_full
ArraySet_len(s) == s.length

ArraySet_is_empty(s) == ArraySet_len(s) = 0

ArraySet_is_full(s) == ArraySet_len(s) = Len(s.values)

\* index: the loop of the binary search over start..end;
\* found is the first return value, slot the second
RECURSIVE index_loop(_, _, _, _)
index_loop(s, value, start, end) ==
    IF start > end THEN [found |-> None, slot |-> Some(start)]
    ELSE LET middle == start + (saturating_sub(end, start) \div 2)
         IN IF value < s.values[middle + 1]
            THEN IF end = start THEN [found |-> None, slot |-> Some(start)]
                 ELSE index_loop(s, value, start, saturating_sub(middle, 1))
            ELSE IF value > s.values[middle + 1]
            THEN index_loop(s, value, middle + 1, end)
            ELSE [found |-> Some(middle), slot |-> None]

\* index
ArraySet_index(s, value) ==
    IF ArraySet_is_empty(s) THEN [found |-> None, slot |-> Some(0)]
    ELSE index_loop(s, value, 0, s.length - 1)

\* get, contains
ArraySet_get(s, value) ==
    IF ArraySet_index(s, value).found.some
    THEN Some(s.values[ArraySet_index(s, value).found.val + 1])
    ELSE None

ArraySet_contains(s, value) == ArraySet_get(s, value).some

\* deref: the first len() slots
ArraySet_deref(s) == SubSeq(s.values, 1, ArraySet_len(s))

\* core::ptr::copy(src, dest, count) on the value slots (memmove)
copy(values, src, dest, count) ==
    [j \in 1 .. Len(values) |->
        IF j - 1 >= dest /\ j - 1 < dest + count
        THEN values[(j - 1) - dest + src + 1]
        ELSE values[j]]

\* the insert that writes the value without moving the slots above it
insert_at_no_shift(s, value, index) ==
    [length |-> (s.length + 1) % U8Mod,
     values |-> [s.values EXCEPT ![index + 1] = value]]

\* insert: the slots from index on move up by one, the value is written and
\* the prefix incremented
insert_at(s, value, index) ==
    [length |-> (s.length + 1) % U8Mod,
     values |-> [copy(s.values, index, index + 1,
                      Len(s.values) - (index + 1))
                   EXCEPT ![index + 1] = value]]

\* ArraySetMut::insert: the buffer it leaves and the boolean it returns
ArraySetMut_insert(s, value) ==
    IF ArraySet_is_full(s) THEN [s |-> s, ret |-> FALSE]
    ELSE IF ArraySet_index(s, value).slot.some
    THEN [s |-> insert_at(s, value, ArraySet_index(s, value).slot.val),
          ret |-> TRUE]
    ELSE [s |-> s, ret |-> FALSE]

\* the take that decrements the prefix without moving the slots above index
take_at_no_shift(s, index) ==
    [length |-> (s.length - 1) % U8Mod, values |-> s.values]

\* take: the slots above index move down by one (when index is not the last
\* element) and the prefix is decremented
take_at(s, index) ==
    [length |-> (s.length - 1) % U8Mod,
     values |-> IF index < ArraySet_len(s) - 1
                THEN copy(s.values, index + 1, index,
                          Len(s.values) - (index + 1))
                ELSE s.values]

\* ArraySetMut::take: the buffer it leaves and the Option it returns
ArraySetMut_take(s, value) ==
    IF ArraySet_is_empty(s) THEN [s |-> s, ret |-> None]
    ELSE IF ArraySet_index(s, value).found.some
    THEN [s |-> take_at(s, ArraySet_index(s, value).found.val),
          ret |-> Some(s.values[ArraySet_index(s, value).found.val + 1])]
    ELSE [s |-> s, ret |-> None]

\* ArraySetMut::remove
ArraySetMut_remove(s, value) ==
    [s |-> ArraySetMut_take(s, value).s,
     ret |-> ArraySetMut_take(s, value).ret.some]

\* ArraySet::from_bytes_unchecked: the read-only view over the buffer: the
\* prefix, and as many value slots as the remaining bytes hold (u8: one each)
ArraySet_from_bytes_unchecked(b) ==
    [length |-> b.length, values |-> SubSeq(b.values, 1, Len(b.values) \div 1)]

\* A zeroed ArraySet buffer of up to MaxSetSlots value slots.
InitSet ==
    \E n \in 0 .. MaxSetSlots :
        /\ set = [length |-> 0, values |-> [i \in 1 .. n |-> 0]]
        /\ str = NoStr
        /\ allocator = U8Allocator_initialize(0)
        /\ nodes = <<>>
        /\ bytes = [len |-> data_len(0), addr |-> 0]
        /\ last = [op |-> "initialize", key |-> 0, value |-> 0, ret |-> None,
                   panic |-> FALSE, kind |-> "none", rot |-> 0]
        /\ expected = [v \in SetValues |-> None]
        /\ net = 0
        /\ handed = {}

\* The buffer and the records after a call on the set: r.s is the buffer it
\* leaves, changed tells whether it returned true or Some.
SetReturned(op, value, s, ret, changed) ==
    /\ set' = s
    /\ last' = [op |-> op, key |-> value, value |-> 0, ret |-> ret,
                panic |-> FALSE,
                kind |-> IF changed THEN "true" ELSE "false", rot |-> 0]
    /\ expected' = IF ~changed THEN expected
                   ELSE IF op = "set_insert"
                   THEN [expected EXCEPT ![value] = Some(value)]
                   ELSE [expected EXCEPT ![value] = None]
    /\ net' = IF ~changed THEN net
              ELSE IF op = "set_insert" THEN net + 1 ELSE net - 1
    /\ UNCHANGED <<allocator, nodes, bytes, str, handed>>

SetInsert(value) ==
    SetReturned("set_insert", value, ArraySetMut_insert(set, value).s, None,
                ArraySetMut_insert(set, value).ret)

SetRemove(value) ==
    SetReturned("set_remove", value, ArraySetMut_remove(set, value).s, None,
                ArraySetMut_remove(set, value).ret)

SetTake(value) ==
    SetReturned("set_take", value, ArraySetMut_take(set, value).s,
                ArraySetMut_take(set, value).ret,
                ArraySetMut_take(set, value).ret.some)

NextSet ==
    \/ \E value \in SetValues : SetInsert(value)
    \/ \E value \in SetValues : SetRemove(value)
    \/ \E value \in SetValues : SetTake(value)

SpecSet == InitSet /\ [][NextSet]_vars

----------------------------------------------------------------------------
\* Walks of the tree for the properties below. They stop after Len(nodes)
\* levels and at any index that is no slot, so they are defined on every
\* array of nodes.
RECURSIVE Subtree(_, _, _)
Subtree(t, i, fuel) ==
    IF fuel = 0 \/ ~ValidIndex(t, i) THEN {}
    ELSE {i} \cup Subtree(t, t.nodes[i].Left, fuel - 1)
             \cup Subtree(t, t.nodes[i].Right, fuel - 1)

\* The height of the subtree at i, counted in nodes (0 for no node).
RECURSIVE TrueHeight(_, _, _)
TrueHeight(t, i, fuel) ==
    IF fuel = 0 \/ ~ValidIndex(t, i) THEN 0
    ELSE 1 + Max(TrueHeight(t, t.nodes[i].Left, fuel - 1),
                 TrueHeight(t, t.nodes[i].Right, fuel - 1))

Reachable(t) == Subtree(t, t.allocator.root, Len(t.nodes))

KeysBelow(t, i) == {t.nodes[j].key : j \in Subtree(t, i, Len(t.nodes))}

Present == {k \in DOMAIN expected : expected[k].some}

TreeNext == [allocator |-> allocator', nodes |-> nodes']

\* C1: after any sequence of inserts and removes, every node reachable from
\* the root has left and right subtrees whose true heights differ by at most 1.
C1_AvlBalance ==
    \A i \in Reachable(Tree) :
        LET hl == TrueHeight(Tree, nodes[i].Left, Len(nodes))
            hr == TrueHeight(Tree, nodes[i].Right, Len(nodes))
        IN hl - hr \in {-1, 0, 1}

\* a remove has made rebalance rotate, and three nodes are left
C1_Witness ==
    /\ last.op = "remove"
    /\ last.ret.some
    /\ last.rot > 0
    /\ allocator.size = 3

\* C2: after any sequence of inserts and removes, for every node all keys in
\* its left subtree are smaller than its key and all keys in its right
\* subtree are larger.
C2_BstOrder ==
    \A i \in Reachable(Tree) :
        /\ \A k \in KeysBelow(Tree, nodes[i].Left) : k < nodes[i].key
        /\ \A k \in KeysBelow(Tree, nodes[i].Right) : k > nodes[i].key

\* a node with two children was removed and its successor, which sat below
\* the right child, took its place; three nodes are left
C2_Witness ==
    /\ last.op = "remove"
    /\ last.kind = "two_deep"
    /\ last.ret.some
    /\ allocator.size = 3

\* C3: a key whose insert returned an index is found by get with the value
\* inserted, and by contains, in every later state until its remove succeeds,
\* whatever inserts, removes of other keys and growth happen in between.
C3_InsertedStaysFound ==
    \A k \in Keys :
        expected[k].some =>
            /\ get(Tree, k) = expected[k]
            /\ contains(Tree, k)

\* the buffer has grown while freed slots were pending, and two keys are in
C3_Witness ==
    /\ last.op = "grow"
    /\ last.kind = "not_packed"
    /\ Cardinality(Present) >= 2

\* C4: a remove that returns a value leaves its key absent (get and contains)
\* and every other key with the value it had; an absent key stays absent
\* until an insert of that key.
C4_RemovedIsAbsent ==
    [][ /\ (last'.op = "remove" /\ last'.ret.some) =>
              /\ get(TreeNext, last'.key) = None
              /\ ~contains(TreeNext, last'.key)
              /\ \A j \in Keys \ {last'.key} :
                     get(TreeNext, j) = get(Tree, j)
        /\ \A k \in Keys :
              (~contains(Tree, k) /\ ~(last'.op = "insert" /\ last'.key = k))
                  => (~contains(TreeNext, k) /\ get(TreeNext, k) = None)
      ]_vars

\* a key with two children, whose successor sat below the right child, was
\* removed and three keys remain
C4_Witness ==
    /\ last.op = "remove"
    /\ last.ret.some
    /\ last.kind = "two_deep"
    /\ ~contains(Tree, last.key)
    /\ Cardinality(Present) = 3

\* C5: len() equals the successful inserts minus the successful removes since
\* initialize, and never exceeds capacity().
C5_SizeCounts ==
    /\ len(Tree) = net
    /\ len(Tree) <= capacity(Tree)

\* a remove has succeeded and two keys are left
C5_Witness ==
    /\ last.op = "remove"
    /\ last.ret.some
    /\ net = 2
    /\ len(Tree) = 2

\* C6: an insert of a key that is not present, into a tree with
\* len() < capacity(), returns an index and does not abort.
C6_InsertSucceeds ==
    (last.op = "insert" /\ last.kind = "new") =>
        (last.ret.some /\ ~last.panic)

\* C7: an insert into a full tree (is_full(), an empty tree of capacity 0
\* included) returns None and changes neither the header nor any node.
C7_FullInsertRefused ==
    [][ (last'.op = "insert" /\ is_full(Tree)) =>
            /\ last'.ret = None
            /\ ~last'.panic
            /\ allocator' = allocator
            /\ nodes' = nodes
      ]_vars

\* C8: an insert of a key already present returns None and writes nothing:
\* the header and every node record are unchanged, so get still returns the
\* old value.
C8_DuplicateInsertRefused ==
    [][ (last'.op = "insert" /\ contains(Tree, last'.key)) =>
            /\ last'.ret = None
            /\ ~last'.panic
            /\ allocator' = allocator
            /\ nodes' = nodes
            /\ get(TreeNext, last'.key) = get(Tree, last'.key)
            /\ len(TreeNext) = len(Tree)
      ]_vars

\* a present key was offered again with another value, in a tree that is not full
C8_Witness ==
    /\ last.op = "insert"
    /\ last.kind = "duplicate"
    /\ last.ret = None
    /\ get(Tree, last.key) # Some(last.value)

\* C9: a remove of a key that is not in the tree (an empty tree included)
\* returns None and changes neither the header nor any node.
C9_AbsentRemoveRefused ==
    [][ (last'.op = "remove" /\ ~contains(Tree, last'.key)) =>
            /\ last'.ret = None
            /\ ~last'.panic
            /\ allocator' = allocator
            /\ nodes' = nodes
      ]_vars

\* an absent key was removed from a tree that holds other keys
C9_Witness ==
    /\ last.op = "remove"
    /\ last.kind = "absent"
    /\ last.ret = None
    /\ len(Tree) >= 2

\* C10: a remove of a present key returns the value that was stored under
\* that key.
C10_RemoveReturnsStored ==
    [][ (last'.op = "remove" /\ expected[last'.key].some) =>
            /\ last'.ret = expected[last'.key]
            /\ last'.ret = get(Tree, last'.key)
      ]_vars

\* the root, with two children, was removed: its successor took its place
C10_Witness ==
    /\ last.op = "remove"
    /\ last.kind \in {"two", "two_deep"}
    /\ last.rot = 0
    /\ last.ret = Some(PayloadOf(last.key))
    /\ allocator.size = 2

----------------------------------------------------------------------------
\* The free list: the slots met from index i along the Height registers,
\* up to the sequence value that ends the list.
RECURSIVE FreeChain(_, _, _)
FreeChain(t, i, fuel) ==
    IF fuel = 0 \/ i = get_field(t, "sequence") \/ ~ValidIndex(t, i) THEN {}
    ELSE {i} \cup FreeChain(t, t.nodes[i].Height, fuel - 1)

FreeSlots(t) == FreeChain(t, get_field(t, "free_list_head"), Len(t.nodes))

\* Every slot has been handed out at least once, so the tree has been full
\* (add only takes a fresh slot when no freed slot is pending), and it has
\* slots to remove keys from.
HasBeenFull(t) ==
    /\ get_field(t, "capacity") >= 1
    /\ get_field(t, "sequence") = get_field(t, "capacity") + 1

\* C11: once a tree has been full, the K = capacity() - len() keys removed
\* since have left exactly K slots on the free list, none of them in the tree;
\* while K > 0 an insert of a new key succeeds and takes one of those slots,
\* and when K = 0 the tree is full and the insert returns None.
C11_FreedSlotsReused ==
    [][ HasBeenFull(Tree) =>
            /\ Cardinality(FreeSlots(Tree)) = capacity(Tree) - len(Tree)
            /\ FreeSlots(Tree) \cap Reachable(Tree) = {}
            /\ is_full(Tree) <=> (FreeSlots(Tree) = {})
            /\ (last'.op = "insert" /\ ~contains(Tree, last'.key)) =>
                   IF FreeSlots(Tree) # {}
                   THEN /\ last'.ret.some
                        /\ ~last'.panic
                        /\ last'.ret.val \in FreeSlots(Tree)
                        /\ len(TreeNext) = len(Tree) + 1
                        /\ FreeSlots(TreeNext) = FreeSlots(Tree) \ {last'.ret.val}
                   ELSE /\ last'.ret = None
                        /\ ~last'.panic
                        /\ allocator' = allocator
                        /\ nodes' = nodes
      ]_vars

\* a tree of MaxSlots slots is full again through an insert that took a slot
\* a remove had freed (a first fill ends in the last slot)
C11_Witness ==
    /\ last.op = "insert"
    /\ last.ret.some
    /\ is_full(Tree)
    /\ capacity(Tree) = MaxSlots
    /\ last.ret.val < capacity(Tree)

----------------------------------------------------------------------------
\* The inserts of the keys of ks, one after the other, each with its payload;
\* ok tells whether every one of them returned an index.
RECURSIVE insert_each(_, _)
insert_each(t, ks) ==
    IF ks = <<>> THEN [t |-> t, ok |-> TRUE]
    ELSE IF insert(t, Head(ks), PayloadOf(Head(ks))).ret.some
    THEN insert_each(insert(t, Head(ks), PayloadOf(Head(ks))).t, Tail(ks))
    ELSE [t |-> t, ok |-> FALSE]

\* The sequences of n distinct keys that are not in the tree.
NewKeySeqs(t, n) ==
    {ks \in [1 .. n -> {k \in Keys : ~contains(t, k)}] :
        \A i, j \in 1 .. n : ks[i] = ks[j] => i = j}

\* What an insert of the key returns, Some(index), None, or "abort".
InsertOutcome(t, key) ==
    IF insert(t, key, PayloadOf(key)).panic THEN "abort"
    ELSE IF insert(t, key, PayloadOf(key)).ret.some THEN "index"
    ELSE "None"

\* The run r of n inserts after a growth by m of a tree that held c entries:
\* all succeeded, the tree holds c + n entries, the old ones are found with
\* their values, and the tree is full exactly when n = m; then an insert of
\* a further new key returns None.
AbsorbedRun(r, c, n, m) ==
    /\ r.ok
    /\ len(r.t) = c + n
    /\ is_full(r.t) <=> (n = m)
    /\ \A k \in Keys : expected[k].some => get(r.t, k) = expected[k]
    /\ n = m => \A k \in Keys : ~contains(r.t, k) => InsertOutcome(r.t, k) = "None"

\* C12: when a full tree of capacity C is viewed again over a buffer with M
\* more slots, len() is still C, capacity() is C + M, the C entries are found
\* with their values, and exactly M further inserts of new keys succeed.
C12_GrowthAbsorbed ==
    [][ (last'.op = "grow" /\ is_full(Tree)) =>
            /\ len(TreeNext) = len(Tree)
            /\ len(TreeNext) = Cardinality(Present)
            /\ capacity(TreeNext) = Len(nodes')
            /\ capacity(TreeNext) > capacity(Tree)
            /\ \A k \in Keys : get(TreeNext, k) = expected[k]
            /\ \A n \in 0 .. Len(nodes') - Len(nodes) :
                   \A ks \in NewKeySeqs(TreeNext, n) :
                       AbsorbedRun(insert_each(TreeNext, ks), len(Tree), n,
                                   Len(nodes') - Len(nodes))
      ]_vars

\* a full tree of two entries has been viewed over a buffer of four slots
C12_Witness ==
    /\ last.op = "grow"
    /\ last.kind = "full"
    /\ len(Tree) = 2
    /\ capacity(Tree) = 4
    /\ Cardinality(Present) = 2

\* C13: a view over an enlarged buffer leaves root, size and every node
\* record of the slots 1..C, C the capacity recorded before, as they were.
C13_GrowthKeepsState ==
    [][ last'.op = "grow" =>
            /\ allocator'.root = allocator.root
            /\ allocator'.size = allocator.size
            /\ Len(nodes') > capacity(Tree)
            /\ \A i \in 1 .. capacity(Tree) : nodes'[i] = nodes[i]
      ]_vars

\* a tree with one entry and a freed slot has been viewed over a buffer of
\* four slots, and the last slot was put on the free list
C13_Witness ==
    /\ last.op = "grow"
    /\ last.kind = "not_packed"
    /\ len(Tree) = 1
    /\ capacity(Tree) = 4
    /\ allocator.free_list_head = 4
    /\ nodes[4].Height # 0

\* C14: a second view over a buffer already absorbed (same length) changes no
\* header field and no node record, whether the tree was packed or not.
C14_GrowthIdempotent ==
    [][ last'.op = "grow" =>
            /\ from_bytes_mut(TreeNext) = TreeNext
            /\ from_bytes_mut(from_bytes_mut(
                   [allocator |-> allocator,
                    nodes |-> nodes \o SubSeq(nodes', Len(nodes) + 1,
                                              Len(nodes'))])) = TreeNext
      ]_vars

\* a tree with two entries and a freed slot has been viewed over a larger
\* buffer, and a second view changes nothing
C14_Witness ==
    /\ last.op = "grow"
    /\ last.kind = "not_packed"
    /\ len(Tree) = 2
    /\ allocator.free_list_head = capacity(Tree)
    /\ from_bytes_mut(Tree) = Tree

\* C15: a read-only view over a buffer with more node slots than the recorded
\* capacity writes nothing and reports the recorded capacity() and len(); the
\* entries are found as before, and a mutable view over the same buffer
\* reports the number of slots as capacity().
C15_ReadOnlyKeepsCapacity ==
    [][ last'.op = "from_bytes" =>
            /\ allocator' = allocator
            /\ SubSeq(nodes', 1, Len(nodes)) = nodes
            /\ capacity(TreeNext) = capacity(Tree)
            /\ len(TreeNext) = len(Tree)
            /\ capacity(TreeNext) < Len(nodes')
            /\ \A k \in Keys : get(TreeNext, k) = expected[k]
            /\ capacity(from_bytes_mut(TreeNext)) = Len(nodes')
      ]_vars

\* a full tree of two entries is viewed read-only over a buffer of four slots
C15_Witness ==
    /\ last.op = "from_bytes"
    /\ Len(nodes) = 4
    /\ capacity(Tree) = 2
    /\ len(Tree) = 2

\* The least member of a non-empty set of keys.
MinKey(S) == CHOOSE k \in S : \A j \in S : k <= j

\* C16: lowest() returns the minimum of the keys in the tree, and None
\* exactly when the tree is empty, after any inserts, removes and growth.
C16_LowestIsMinimum ==
    /\ lowest(Tree) = IF Present = {} THEN None ELSE Some(MinKey(Present))
    /\ (lowest(Tree) = None) <=> is_empty(Tree)

\* the minimum was removed from a tree of four entries; the new minimum is
\* not at the root
C16_Witness ==
    /\ last.op = "remove"
    /\ last.ret.some
    /\ Cardinality(Present) = 3
    /\ lowest(Tree) = Some(MinKey(Present))
    /\ last.key < MinKey(Present)
    /\ nodes[allocator.root].key # MinKey(Present)

\* C17: the slot whose index insert returned holds the key and the value from
\* then on; no later call (insert, remove of another key with its rotations
\* and splice, growth) moves a key that stays in the tree to another slot or
\* changes the key or value bytes of its slot.
C17_PayloadStaysInSlot ==
    [][ /\ \A k \in Keys :
              (contains(Tree, k) /\ ~(last'.op = "remove" /\ last'.key = k)) =>
                  /\ find(TreeNext, k) = find(Tree, k)
                  /\ nodes'[find(Tree, k).val].key = k
                  /\ nodes'[find(Tree, k).val].value
                         = nodes[find(Tree, k).val].value
        /\ (last'.op = "insert" /\ last'.ret.some) =>
              /\ find(TreeNext, last'.key) = last'.ret
              /\ nodes'[last'.ret.val].key = last'.key
              /\ nodes'[last'.ret.val].value = last'.value
      ]_vars

\* the root, with two children, was removed; its successor is the root now,
\* above the removed key's smaller and larger neighbours
C17_Witness ==
    /\ last.op = "remove"
    /\ last.kind \in {"two", "two_deep"}
    /\ last.ret.some
    /\ allocator.root # SENTINEL
    /\ nodes[allocator.root].key > last.key
    /\ nodes[allocator.root].Left # SENTINEL
    /\ nodes[allocator.root].Right # SENTINEL
    /\ nodes[nodes[allocator.root].Left].key < last.key

\* C18: a tree initialized with capacity 255 takes 255 inserts of distinct
\* keys, into the slots 1..255, without an abort; every key inserted is found
\* with its value; only the 256th insert is refused.
C18_FullWidthFill ==
    /\ ~last.panic
    /\ (last.op = "insert" /\ last.kind = "new") => last.ret = Some(net)
    /\ (last.op = "insert" /\ last.ret = None) =>
           (last.kind = "full" /\ net = MaxCapacity)
    /\ \A k \in FillKeys : expected[k].some => get(Tree, k) = expected[k]

\* C19: a view constructed over a buffer that is truncated (shorter than the
\* header, or not a whole number of node records) or misaligned ends in an
\* error value and not in an abort.
C19_ViewErrorsRecoverable ==
    (last.op \in {"from_bytes", "from_bytes_mut"} /\ Malformed(bytes)) =>
        (~last.panic /\ last.kind = "error")

\* C20: after any inserts, removes and takes the first len() value slots are
\* strictly ascending, len() is at most the number of slots, and a read-only
\* view over the same bytes sees the elements put in and not taken out.
C20_SetSorted ==
    /\ ArraySet_len(set) <= Len(set.values)
    /\ \A i, j \in 1 .. ArraySet_len(set) :
           i < j => set.values[i] < set.values[j]
    /\ ArraySet_len(ArraySet_from_bytes_unchecked(set)) = net
    /\ {ArraySet_deref(ArraySet_from_bytes_unchecked(set))[i] :
            i \in 1 .. ArraySet_len(set)} = {v \in SetValues : expected[v].some}

\* a value was inserted below two others, after a remove left a stale value
\* in the slot past the end
C20_Witness ==
    /\ last.op = "set_insert"
    /\ last.kind = "true"
    /\ ArraySet_len(set) = 3
    /\ Len(set.values) = 4
    /\ set.values[1] = last.key
    /\ set.values[4] # 0

----------------------------------------------------------------------------
\* Prefix::increment is *self += 1 on the u8 prefix: a build with overflow
\* checks panics when the prefix is 255.
increment_overflows(s) == s.length + 1 >= U8Mod

\* ArraySetMut::insert gets as far as the increment: the set is not full and
\* index has returned a slot
reaches_increment(s, value) ==
    /\ ~ArraySet_is_full(s)
    /\ ArraySet_index(s, value).slot.some

\* ArraySetMut::insert in a build with overflow checks, when the increment
\* overflows: the slots were shifted and the value written, the prefix is as
\* it was, and the call aborts
SetInsertChecked(value) ==
    /\ reaches_increment(set, value)
    /\ increment_overflows(set)
    /\ set' = [set EXCEPT !.values = insert_at(set, value,
                              ArraySet_index(set, value).slot.val).values]
    /\ last' = [op |-> "set_insert", key |-> value, value |-> 0, ret |-> None,
                panic |-> TRUE, kind |-> "overflow", rot |-> 0]
    /\ UNCHANGED <<allocator, nodes, bytes, str, expected, net, handed>>

\* The u8 values, one more than a u8 prefix counts.
WideValues == 0 .. U8Mod - 1

\* A zeroed ArraySet buffer with a u8 prefix and one u8 slot for every u8.
InitSetFill ==
    /\ set = [length |-> 0, values |-> [i \in 1 .. U8Mod |-> 0]]
    /\ str = NoStr
    /\ allocator = U8Allocator_initialize(0)
    /\ nodes = <<>>
    /\ bytes = [len |-> data_len(0), addr |-> 0]
    /\ last = [op |-> "initialize", key |-> 0, value |-> 0, ret |-> None,
               panic |-> FALSE, kind |-> "none", rot |-> 0]
    /\ expected = [v \in WideValues |-> None]
    /\ net = 0
    /\ handed = {}

\* The value a fill takes next: the values go up from 0 or down from 255, as
\* the tests fill a set in order; the first insert picks the direction.
SetFillNext ==
    IF net = 0 THEN {0, U8Mod - 1}
    ELSE IF net >= U8Mod THEN {}
    ELSE IF expected[0].some THEN {net}
    ELSE {U8Mod - 1 - net}

\* the buffer is filled with distinct values, in either build
NextSetFill ==
    \/ \E value \in SetFillNext : ~last.panic /\ SetInsert(value)
    \/ \E value \in SetFillNext : ~last.panic /\ SetInsertChecked(value)

SpecSetFill == InitSetFill /\ [][NextSetFill]_vars

\* The elements of the set: the values in the first len() slots.
Elements(s) == {ArraySet_deref(s)[i] : i \in 1 .. ArraySet_len(s)}

\* C21: insert(v) returns true exactly when v was not in the set and the set
\* was not full; then len() has grown by one, contains(v) holds and every
\* earlier element is still present; when it returns false the elements and
\* len() are as before. The call does not abort.
C21_InsertContract ==
    [][ last'.op = "set_insert" =>
            /\ ~last'.panic
            /\ (last'.kind = "true") <=>
                   (~ArraySet_contains(set, last'.key) /\ ~ArraySet_is_full(set))
            /\ IF last'.kind = "true"
               THEN /\ ArraySet_len(set') = ArraySet_len(set) + 1
                    /\ ArraySet_contains(set', last'.key)
                    /\ \A u \in Elements(set) : ArraySet_contains(set', u)
               ELSE /\ ArraySet_len(set') = ArraySet_len(set)
                    /\ ArraySet_deref(set') = ArraySet_deref(set)
      ]_vars

\* The sequence without the value v, the other values in the order they had.
Without(seq, v) == SelectSeq(seq, LAMBDA x : x # v)

\* C22: remove(v) returns true, and take(v) returns v, exactly when v was in
\* the set; afterwards contains(v) is false, len() is one less and the other
\* elements are there in the order they had; when v is absent, or the set is
\* empty, the buffer is unchanged.
C22_RemoveContract ==
    [][ last'.op \in {"set_remove", "set_take"} =>
            /\ (last'.kind = "true") <=> (last'.key \in Elements(set))
            /\ last'.op = "set_take" =>
                   last'.ret = IF last'.key \in Elements(set)
                               THEN Some(last'.key) ELSE None
            /\ IF last'.key \in Elements(set)
               THEN /\ ~ArraySet_contains(set', last'.key)
                    /\ ArraySet_len(set') = ArraySet_len(set) - 1
                    /\ ArraySet_deref(set') = Without(ArraySet_deref(set),
                                                      last'.key)
               ELSE set' = set
      ]_vars

\* take has returned a value that sat between two others, which are the set now
C22_Witness ==
    /\ last.op = "set_take"
    /\ last.ret = Some(last.key)
    /\ ArraySet_len(set) = 2
    /\ set.values[1] < last.key
    /\ last.key < set.values[2]

----------------------------------------------------------------------------
\* The checked constructors of the set, for ArraySet<u64, u8> as in
\* tests::test_insert: size_of and align_of of the u64 prefix.
PrefixSize == 8

PrefixAlign == 8

\* align_of of a reference, by target: 32-bit and 64-bit pointers.
PointerAligns == {4, 8}

\* core::mem::align_of_val(bytes) with bytes: &[u8] is the alignment of the
\* type [u8], whatever the address of the slice
align_of_val(b) == 1

\* align_of::<Self>(): Self is the struct of the two references length and
\* values, aligned as a pointer is
align_of_Self(pointer) == pointer

\* FromBytes::from_bytes for ArraySet, FromBytesMut::from_bytes_mut for
\* ArraySetMut: Err(InvalidLength) or Ok(view)
ArraySet_from_bytes(b, pointer) ==
    IF b.len < PrefixSize THEN "InvalidLength"
    ELSE IF align_of_val(b) # align_of_Self(pointer) THEN "InvalidLength"
    ELSE "Ok"

\* A zeroed buffer of any length up to MaxBytes, at any address.
InitSetBytes ==
    \E n \in 0 .. MaxBytes, a \in 0 .. PrefixAlign - 1 :
        /\ bytes = [len |-> n, addr |-> a]
        /\ set = [length |-> 0,
                  values |-> [i \in 1 .. (IF n < PrefixSize THEN 0
                                          ELSE n - PrefixSize) |-> 0]]
        /\ str = NoStr
        /\ allocator = U8Allocator_initialize(0)
        /\ nodes = <<>>
        /\ last = [op |-> "buffer", key |-> 0, value |-> 0, ret |-> None,
                   panic |-> FALSE, kind |-> "none", rot |-> 0]
        /\ expected = [v \in SetValues |-> None]
        /\ net = 0
        /\ handed = {}

\* The records after a checked constructor returned outcome; the view it
\* returns with Ok is the one from_bytes_unchecked builds.
SetConstructed(op, outcome) ==
    /\ set' = IF outcome = "Ok" THEN ArraySet_from_bytes_unchecked(set)
              ELSE set
    /\ last' = [op |-> op, key |-> 0, value |-> 0, ret |-> None,
                panic |-> FALSE, kind |-> outcome, rot |-> 0]
    /\ UNCHANGED <<allocator, nodes, bytes, str, expected, net, handed>>

\* ArraySet::from_bytes over the buffer
SetViewBytes ==
    \E pointer \in PointerAligns :
        SetConstructed("set_from_bytes", ArraySet_from_bytes(bytes, pointer))

\* ArraySetMut::from_bytes_mut over the buffer
SetViewBytesMut ==
    \E pointer \in PointerAligns :
        SetConstructed("set_from_bytes_mut",
                       ArraySet_from_bytes(bytes, pointer))

NextSetBytes == SetViewBytes \/ SetViewBytesMut

SpecSetBytes == InitSetBytes /\ [][NextSetBytes]_vars

\* C23: from_bytes and from_bytes_mut return an error for a buffer shorter
\* than the length prefix, and Ok for a buffer that holds the prefix and is
\* aligned for it (the u8 elements need no alignment).
C23_CheckedConstructors ==
    last.op \in {"set_from_bytes", "set_from_bytes_mut"} =>
        /\ bytes.len < PrefixSize => last.kind = "InvalidLength"
        /\ (bytes.len >= PrefixSize /\ bytes.addr % PrefixAlign = 0) =>
               last.kind = "Ok"

----------------------------------------------------------------------------
\* The fixed-size strings of src/types/str.rs and src/pod/pod_str.rs:
\* str = [kind |-> "Str" or "PodStr", value |-> the MAX_SIZE bytes,
\*        arg |-> the slice last copied in].

\* b'\0'
NUL == 0

\* MAX_SIZE of the strings modelled.
StrMaxSize == 3

\* The slices copied in are up to one byte longer than MAX_SIZE.
MaxSlice == StrMaxSize + 1

\* The bytes of the slices: NUL, two ASCII letters, and 0xFF, which no UTF-8
\* text contains.
StrBytes == {NUL, 97, 98, 255}

Slices == UNION {[1 .. n -> StrBytes] : n \in 0 .. MaxSlice}

\* core::cmp::min
min(a, b) == IF a <= b THEN a ELSE b

\* the copy that leaves the bytes past the slice as they were
Str_copy_from_slice_no_fill(value, slice) ==
    [i \in 1 .. Len(value) |->
        IF i <= min(Len(slice), Len(value)) THEN slice[i] ELSE value[i]]

\* Str::copy_from_slice: the value it leaves
Str_copy_from_slice(value, slice) ==
    [i \in 1 .. Len(value) |->
        IF i <= min(Len(slice), Len(value)) THEN slice[i] ELSE 0]

\* PodStr::copy_from_slice: the value it leaves
PodStr_copy_from_slice(value, slice) ==
    [i \in 1 .. Len(value) |->
        IF i <= min(Len(slice), Len(value)) THEN slice[i] ELSE 0]

\* value.iter().position(|&x| x == b'\0').unwrap_or(MAX_SIZE)
end_index(value) ==
    IF \E i \in 1 .. Len(value) : value[i] = NUL
    THEN (CHOOSE i \in 1 .. Len(value) :
              value[i] = NUL /\ \A j \in 1 .. i - 1 : value[j] # NUL) - 1
    ELSE Len(value)

\* core::str::from_utf8 on bytes of StrBytes: ASCII bytes are valid, 0xFF is
\* not valid anywhere
from_utf8(b) ==
    IF \A i \in 1 .. Len(b) : b[i] < 128 THEN [ok |-> TRUE, val |-> b]
    ELSE [ok |-> FALSE, val |-> <<>>]

\* Str::as_str (Err is TranslationError::InvalidValue)
Str_as_str(value) == from_utf8(SubSeq(value, 1, end_index(value)))

\* PodStr::as_str (Err is the Utf8Error)
PodStr_as_str(value) == from_utf8(SubSeq(value, 1, end_index(value)))

\* as_str of the string at hand
as_str(s) ==
    IF s.kind = "Str" THEN Str_as_str(s.value) ELSE PodStr_as_str(s.value)

\* A zeroed Str<MAX_SIZE> (tests::test_str_copy_from_slice) or
\* PodStr::default().
InitStr ==
    \E kind \in {"Str", "PodStr"} :
        /\ str = [kind |-> kind, value |-> [i \in 1 .. StrMaxSize |-> 0],
                  arg |-> <<>>]
        /\ set = NoSet
        /\ allocator = U8Allocator_initialize(0)
        /\ nodes = <<>>
        /\ bytes = [len |-> data_len(0), addr |-> 0]
        /\ last = [op |-> "initialize", key |-> 0, value |-> 0, ret |-> None,
                   panic |-> FALSE, kind |-> "none", rot |-> 0]
        /\ expected = [k \in Keys |-> None]
        /\ net = 0
        /\ handed = {}

\* The string and the records after copy_from_slice(slice) left value.
Copied(value, slice) ==
    /\ str' = [str EXCEPT !.value = value, !.arg = slice]
    /\ last' = [op |-> "copy_from_slice", key |-> 0, value |-> 0,
                ret |-> None, panic |-> FALSE, kind |-> str.kind, rot |-> 0]
    /\ UNCHANGED <<allocator, nodes, bytes, set, expected, net, handed>>

StrCopyFromSlice(slice) ==
    /\ str.kind = "Str"
    /\ Copied(Str_copy_from_slice(str.value, slice), slice)

PodStrCopyFromSlice(slice) ==
    /\ str.kind = "PodStr"
    /\ Copied(PodStr_copy_from_slice(str.value, slice), slice)

NextStr ==
    \/ \E slice \in Slices : StrCopyFromSlice(slice)
    \/ \E slice \in Slices : PodStrCopyFromSlice(slice)

SpecStr == InitStr /\ [][NextStr]_vars

\* The slice is ASCII text with no NUL in it.
NulFreeAscii(b) == \A i \in 1 .. Len(b) : b[i] # NUL /\ b[i] < 128

\* C24: after copy_from_slice(s) the value holds the first
\* min(len(s), MAX_SIZE) bytes of s and zeros after them, whatever it held
\* before; as_str yields the bytes before the first NUL; for a NUL-free ASCII
\* s it yields s when len(s) <= MAX_SIZE, and the first MAX_SIZE bytes of s
\* otherwise.
C24_FixedStrCopy ==
    last.op = "copy_from_slice" =>
        /\ Len(str.value) = StrMaxSize
        /\ \A i \in 1 .. StrMaxSize :
               str.value[i] = IF i <= Len(str.arg) THEN str.arg[i] ELSE NUL
        /\ as_str(str).ok =>
               /\ \A i \in 1 .. Len(as_str(str).val) :
                      as_str(str).val[i] = str.value[i] /\ str.value[i] # NUL
               /\ Len(as_str(str).val) < StrMaxSize =>
                      str.value[Len(as_str(str).val) + 1] = NUL
        /\ NulFreeAscii(str.arg) =>
               /\ as_str(str).ok
               /\ as_str(str).val = IF Len(str.arg) <= StrMaxSize THEN str.arg
                                    ELSE SubSeq(str.arg, 1, StrMaxSize)

\* a NUL-free ASCII slice one byte longer than MAX_SIZE was copied into a
\* PodStr, and as_str yields its first MAX_SIZE bytes
C24_Witness ==
    /\ last.op = "copy_from_slice"
    /\ str.kind = "PodStr"
    /\ Len(str.arg) = MaxSlice
    /\ NulFreeAscii(str.arg)
    /\ as_str(str).val = SubSeq(str.arg, 1, StrMaxSize)

----------------------------------------------------------------------------
\* The prefixed strings of src/types/prefix_str.rs:
\* str = [kind |-> "U8PrefixStrMut" or "U16PrefixStrMut",
\*        value |-> the bytes of the data buffer, prefix included,
\*        arg |-> <<>>, view |-> the number of bytes self.value spans].

\* The data buffers are up to MaxData bytes long: past what a u8 prefix counts.
MaxData == 258

\* std::mem::size_of::<$prefix_type>()
size_of_prefix(kind) == IF kind = "U8PrefixStrMut" THEN 1 ELSE 2

\* The number of values of $prefix_type: `as $prefix_type` keeps the low bits.
prefix_mod(kind) == IF kind = "U8PrefixStrMut" THEN U8Mod ELSE U8Mod * U8Mod

\* $prefix_type::to_le_bytes
to_le_bytes(n, w) == [i \in 1 .. w |-> (n \div (U8Mod ^ (i - 1))) % U8Mod]

\* bytemuck::pod_read_unaligned::<$prefix_type> on a little-endian target
pod_read_unaligned(b) == IF Len(b) = 1 THEN b[1] ELSE b[1] + U8Mod * b[2]

\* The outcome of a constructor: the data it leaves, the bytes its value
\* spans, and how it ended ("Ok", "Err" or "abort").
Loaded(data, view, kind) == [data |-> data, view |-> view, kind |-> kind]

\* from_bytes, from_bytes_mut: the value is cut to the length read from the
\* prefix; &value[..length] panics when the data is shorter than that
cut_value(data, w, length) ==
    IF length > Len(data) - w THEN Loaded(data, 0, "abort")
    ELSE IF from_utf8(SubSeq(data, w + 1, w + length)).ok
    THEN Loaded(data, length, "Ok")
    ELSE Loaded(data, length, "Err")

\* from_bytes_mut (split_at_mut panics on data shorter than the prefix)
PrefixStr_from_bytes_mut(data, w) ==
    IF Len(data) < w THEN Loaded(data, 0, "abort")
    ELSE cut_value(data, w, pod_read_unaligned(SubSeq(data, 1, w)))

\* U8PrefixStr::from_bytes, U16PrefixStr::from_bytes (from_bytes_unchecked
\* and the UTF-8 check)
PrefixStr_from_bytes(data, w) ==
    IF Len(data) < w THEN Loaded(data, 0, "abort")
    ELSE cut_value(data, w, pod_read_unaligned(SubSeq(data, 1, w)))

\* new, with new_unchecked: the prefix is written (data[..type_length] panics
\* on data shorter than the prefix), then from_bytes_mut and the UTF-8 check
PrefixStr_new(data, kind) ==
    IF Len(data) < size_of_prefix(kind) THEN Loaded(data, 0, "abort")
    ELSE PrefixStr_from_bytes_mut(
             to_le_bytes(saturating_sub(Len(data), size_of_prefix(kind))
                             % prefix_mod(kind),
                         size_of_prefix(kind))
                 \o SubSeq(data, size_of_prefix(kind) + 1, Len(data)),
             size_of_prefix(kind))

\* size
PrefixStr_size(s) == size_of_prefix(s.kind) + s.view

\* A zeroed data buffer of up to MaxData bytes, for either prefix type.
InitPrefixStr ==
    \E kind \in {"U8PrefixStrMut", "U16PrefixStrMut"}, n \in 0 .. MaxData :
        /\ str = [kind |-> kind, value |-> [i \in 1 .. n |-> 0],
                  arg |-> <<>>, view |-> 0]
        /\ set = NoSet
        /\ allocator = U8Allocator_initialize(0)
        /\ nodes = <<>>
        /\ bytes = [len |-> n, addr |-> 0]
        /\ last = [op |-> "buffer", key |-> 0, value |-> 0, ret |-> None,
                   panic |-> FALSE, kind |-> "none", rot |-> 0]
        /\ expected = [k \in Keys |-> None]
        /\ net = 0
        /\ handed = {}

\* The string and the records after a constructor ended as r.
PrefixLoaded(op, r) ==
    /\ str' = [str EXCEPT !.value = r.data, !.view = r.view]
    /\ last' = [op |-> op, key |-> 0, value |-> 0, ret |-> None,
                panic |-> r.kind = "abort", kind |-> r.kind, rot |-> 0]
    /\ UNCHANGED <<allocator, nodes, bytes, set, expected, net, handed>>

\* U8PrefixStrMut::new / U16PrefixStrMut::new over the data buffer
PrefixNew ==
    /\ ~last.panic
    /\ PrefixLoaded("new", PrefixStr_new(str.value, str.kind))

\* U8PrefixStr::from_bytes / U16PrefixStr::from_bytes over the same bytes
PrefixFromBytes ==
    /\ ~last.panic
    /\ PrefixLoaded("prefix_from_bytes",
                    PrefixStr_from_bytes(str.value, size_of_prefix(str.kind)))

NextPrefixStr == PrefixNew \/ PrefixFromBytes

SpecPrefixStr == InitPrefixStr /\ [][NextPrefixStr]_vars

\* C25: new over a data buffer of n bytes, n at least the prefix width,
\* writes the prefix n - width and yields a string over the whole remainder
\* of the buffer: size() = n, and from_bytes over the same bytes yields the
\* same string.
C25_PrefixNew ==
    (last.op = "new" /\ Len(str.value) >= size_of_prefix(str.kind)) =>
        /\ last.kind = "Ok"
        /\ pod_read_unaligned(SubSeq(str.value, 1, size_of_prefix(str.kind)))
               = Len(str.value) - size_of_prefix(str.kind)
        /\ str.view = Len(str.value) - size_of_prefix(str.kind)
        /\ PrefixStr_size(str) = Len(str.value)
        /\ PrefixStr_from_bytes(str.value, size_of_prefix(str.kind))
               = Loaded(str.value, str.view, "Ok")

----------------------------------------------------------------------------
\* C26: in every state reached from initialize by inserts, removes and views
\* over an enlarged buffer, size <= capacity, free_list_head and sequence are
\* in 1 .. capacity + 1, and the left and right registers of the nodes in the
\* tree are NIL or a slot of 1 .. capacity.
C26_HeaderInvariants ==
    /\ get_field(Tree, "size") <= capacity(Tree)
    /\ get_field(Tree, "free_list_head") \in 1 .. capacity(Tree) + 1
    /\ get_field(Tree, "sequence") \in 1 .. capacity(Tree) + 1
    /\ \A i \in Reachable(Tree) :
           /\ get_register(Tree, i, "Left") \in 0 .. capacity(Tree)
           /\ get_register(Tree, i, "Right") \in 0 .. capacity(Tree)

\* C27: in every reachable state, after a view over an enlarged buffer
\* included, free_list_head = sequence exactly when every slot handed out so
\* far holds an entry of the tree (no freed slot awaits reuse).
C27_FreeHeadMeetsSequence ==
    (get_field(Tree, "free_list_head") = get_field(Tree, "sequence"))
        <=> (handed \subseteq Reachable(Tree))

\* The free list as a walk: the slots met from index i along the Height
\* registers until the sequence value, an index that is no slot, or more
\* steps than there are slots.
RECURSIVE FreePath(_, _, _)
FreePath(t, i, fuel) ==
    IF fuel = 0 \/ i = get_field(t, "sequence") \/ ~ValidIndex(t, i) THEN <<>>
    ELSE <<i>> \o FreePath(t, t.nodes[i].Height, fuel - 1)

\* Where that walk stops.
RECURSIVE FreeStop(_, _, _)
FreeStop(t, i, fuel) ==
    IF fuel = 0 \/ i = get_field(t, "sequence") \/ ~ValidIndex(t, i) THEN i
    ELSE FreeStop(t, t.nodes[i].Height, fuel - 1)

\* The walk p visits no slot of the tree and no slot twice, and with the
\* slots sequence .. capacity it accounts for the capacity() - len() slots
\* that hold no entry.
WellFormedFreeList(t, p) ==
    /\ \A j \in 1 .. Len(p) : p[j] \notin Reachable(t)
    /\ \A j, k \in 1 .. Len(p) : p[j] = p[k] => j = k
    /\ Len(p) + (capacity(t) - get_field(t, "sequence") + 1)
           = capacity(t) - len(t)

\* C28: in every reachable state the walk from free_list_head along the
\* height registers visits only slots that hold no entry of the tree, each at
\* most once, and ends at sequence; the slots on it and the slots
\* sequence .. capacity are capacity() - len() together.
C28_FreeListWellFormed ==
    /\ FreeStop(Tree, get_field(Tree, "free_list_head"), Len(nodes) + 1)
           = get_field(Tree, "sequence")
    /\ WellFormedFreeList(Tree,
           FreePath(Tree, get_field(Tree, "free_list_head"), Len(nodes) + 1))

\* C29: in any sequence of inserts, removes and views over an enlarged
\* buffer, the slot an insert writes its key and value into (the index it
\* returns) does not hold an entry of the tree at that moment.
C29_NoAliasing ==
    [][ (last'.op = "insert" /\ last'.ret.some) =>
            last'.ret.val \notin Reachable(Tree)
      ]_vars

\* an insert after a view over an enlarged buffer has taken the last free
\* slot, and free_list_head is left naming a slot that holds an entry
C29_Witness ==
    /\ last.op = "insert"
    /\ last.ret.some
    /\ get_field(Tree, "free_list_head") \in Reachable(Tree)
    /\ get_field(Tree, "free_list_head") # last.ret.val
    /\ len(Tree) >= 2

----------------------------------------------------------------------------
\* A tree deep enough for the walk to the in-order successor to take more
\* than one step needs seven nodes.
DeepSlots == 7

\* Removes made once the tree has been filled.
DeepRemoves == 2

DeepKeys == 0 .. DeepSlots - 1

\* A zeroed buffer of DeepSlots node slots, initialized with DeepSlots.
InitDeep ==
    /\ allocator = U8Allocator_initialize(DeepSlots)
    /\ nodes = [i \in 1 .. DeepSlots |-> ZeroNode]
    /\ bytes = [len |-> data_len(DeepSlots), addr |-> 0]
    /\ set = NoSet
    /\ str = NoStr
    /\ last = [op |-> "initialize", key |-> 0, value |-> 0, ret |-> None,
               panic |-> FALSE, kind |-> "none", rot |-> 0]
    /\ expected = [k \in DeepKeys |-> None]
    /\ net = 0
    /\ handed = {}

\* How the node found for a key sits in the tree, telling apart the nodes
\* whose successor lies two or more steps to the left of the right child.
DeepKind(t, key) ==
    IF RemoveKind(t, key) = "two_deep"
       /\ Len(leftmost_loop(t, get_register(t, find(t, key).val, "Right"),
                            SENTINEL, <<>>).inner_path) >= 2
    THEN "two_deeper"
    ELSE RemoveKind(t, key)

\* insert of a new key, while the tree is being filled (no remove yet)
InsertDeep(key) ==
    /\ Cardinality(handed) = net
    /\ ~contains(Tree, key)
    /\ Insert(key, PayloadOf(key))

\* remove of a key that is in the tree, once the tree has been filled
RemoveDeep(key) ==
    /\ ~last.panic
    /\ Cardinality(handed) = DeepSlots
    /\ DeepSlots - net < DeepRemoves
    /\ contains(Tree, key)
    /\ Returned(remove(Tree, key), "remove", key, 0, DeepKind(Tree, key))

\* a tree of DeepSlots slots is filled with the keys in any order, and then
\* up to DeepRemoves keys are removed
NextDeep ==
    \/ \E key \in DeepKeys : InsertDeep(key)
    \/ \E key \in DeepKeys : RemoveDeep(key)

SpecDeep == InitDeep /\ [][NextDeep]_vars

\* C30: after every insert and every remove the height register of every
\* node reachable from the root is the height of its subtree: 0 for a leaf,
\* 1 + the larger of the children's heights otherwise; that includes the
\* nodes between the right child and the successor in a two-child removal.
C30_HeightsExact ==
    \A i \in Reachable(Tree) :
        get_register(Tree, i, "Height") = TrueHeight(Tree, i, Len(nodes)) - 1

\* a node with two children was removed whose successor lay two steps to the
\* left of its right child
C30_Witness ==
    /\ last.op = "remove"
    /\ last.kind = "two_deeper"
    /\ last.ret.some
    /\ len(Tree) = DeepSlots - 1

----------------------------------------------------------------------------
\* The registers that name slot i: the pairs (node of the tree, branch).
Parents(t, i) ==
    {p \in Reachable(t) \X {"Left", "Right"} :
        get_register(t, p[1], p[2]) = i}

\* C31: in every reachable state root is NIL exactly when len() = 0;
\* otherwise root is a slot that holds an entry; no slot is met twice on the
\* way down from the root (the root has no parent and every other node of
\* the tree has exactly one); the slots reached are len() in number, and
\* their keys are exactly the keys inserted and not yet removed.
C31_TreeShape ==
    /\ (get_field(Tree, "root") = SENTINEL) <=> (len(Tree) = 0)
    /\ get_field(Tree, "root") # SENTINEL =>
           /\ ValidIndex(Tree, get_field(Tree, "root"))
           /\ get_field(Tree, "root") \in handed
           /\ nodes[get_field(Tree, "root")].key \in Present
    /\ Parents(Tree, get_field(Tree, "root")) = {}
    /\ \A i \in Reachable(Tree) \ {get_field(Tree, "root")} :
           Cardinality(Parents(Tree, i)) = 1
    /\ \A i \in Reachable(Tree) :
           /\ get_register(Tree, i, "Left") \in {SENTINEL} \cup Reachable(Tree)
           /\ get_register(Tree, i, "Right") \in {SENTINEL} \cup Reachable(Tree)
    /\ Cardinality(Reachable(Tree)) = len(Tree)
    /\ \A i, j \in Reachable(Tree) : nodes[i].key = nodes[j].key => i = j
    /\ {nodes[i].key : i \in Reachable(Tree)} = Present

\* the root of a tree of three nodes, the only node with two children, was
\* removed and its successor is the root of the two nodes left
C31_Witness ==
    /\ last.op = "remove"
    /\ last.kind = "two"
    /\ last.ret.some
    /\ len(Tree) = 2
    /\ get_field(Tree, "root") # SENTINEL
    /\ nodes[get_field(Tree, "root")].key > last.key

----------------------------------------------------------------------------
\* No remove has succeeded since initialize: the slots handed out are
\* 1 .. net, one for each insert that returned an index, and free_list_head
\* and sequence both name the slot after them.
Fresh(t) ==
    /\ handed = 1 .. net
    /\ get_field(t, "free_list_head") = net + 1
    /\ get_field(t, "sequence") = net + 1

\* C32: after initialize(N) on a zeroed buffer the tree is empty (len() = 0,
\* root NIL, capacity() = N, free_list_head = sequence = 1), and as long as no
\* remove has succeeded the k-th insert that returns an index returns k and
\* leaves free_list_head = sequence = k + 1.
C32_FreshAllocation ==
    [][ /\ last.op = "initialize" =>
               /\ len(Tree) = 0
               /\ get_field(Tree, "root") = SENTINEL
               /\ capacity(Tree) = Len(nodes)
               /\ Fresh(Tree)
               /\ net = 0
        /\ (Fresh(Tree) /\ last'.op = "insert" /\ last'.ret.some) =>
               /\ last'.ret.val = net + 1
               /\ net' = net + 1
               /\ get_field(TreeNext, "free_list_head") = net + 2
               /\ get_field(TreeNext, "sequence") = net + 2
      ]_vars

----------------------------------------------------------------------------
\* The slots awaiting reuse, the one freed last first.
FreeStack(t) == FreePath(t, get_field(t, "free_list_head"), Len(t.nodes) + 1)

\* C33: freed slots are reused last-freed-first, and the slot remove(k) frees
\* is the one that held k, which is the index insert(k, ..) returned. With no
\* growth in between: a remove that succeeds puts the slot of its key on top
\* of the slots awaiting reuse; an insert that succeeds takes the top slot
\* while there is one, and a new index (the sequence value) only when there
\* is none; a call that returns None leaves them as they were.
C33_LastFreedFirst ==
    [][ /\ (last'.op = "insert" /\ last'.ret.some) =>
               /\ find(TreeNext, last'.key) = last'.ret
               /\ IF FreeStack(Tree) # <<>>
                  THEN /\ last'.ret.val = Head(FreeStack(Tree))
                       /\ FreeStack(TreeNext) = Tail(FreeStack(Tree))
                  ELSE /\ last'.ret.val = get_field(Tree, "sequence")
                       /\ last'.ret.val \notin handed
                       /\ FreeStack(TreeNext) = <<>>
        /\ (last'.op = "remove" /\ last'.ret.some) =>
               /\ find(Tree, last'.key).val \in handed
               /\ FreeStack(TreeNext)
                      = <<find(Tree, last'.key).val>> \o FreeStack(Tree)
        /\ \A k \in DOMAIN expected :
               (contains(Tree, k) /\ ~(last'.op = "remove" /\ last'.key = k))
                   => find(TreeNext, k) = find(Tree, k)
        /\ ~last'.ret.some => FreeStack(TreeNext) = FreeStack(Tree)
      ]_vars

\* every slot had been handed out, at least two keys were removed, and an
\* insert has taken the slot freed last while an older one still waits
C33_Witness ==
    /\ last.op = "insert"
    /\ last.ret.some
    /\ get_field(Tree, "sequence") = capacity(Tree) + 1
    /\ capacity(Tree) >= 3
    /\ FreeStack(Tree) # <<>>
    /\ last.ret.val > Head(FreeStack(Tree))

----------------------------------------------------------------------------
\* Buffers of as many node slots as the u8 header fields count, and more.
\* The tree starts in a buffer of WideStart slots, or one less.
WideStart == 250

\* The keys inserted and removed there.
WideKeys == 0 .. 2

\* The numbers of node slots of the enlarged buffer: one less than the
\* largest u8 value, that value, and the two sizes after it.
WideTargets == MaxCapacity - 1 .. MaxCapacity + 2

\* from_bytes_mut computes nodes.len() as u8 + 1 when the tree is not packed:
\* a build with overflow checks panics when the sum passes 255.
from_bytes_mut_overflows(t) ==
    /\ Len(t.nodes) > get_field(t, "capacity")
    /\ get_field(t, "sequence") # get_field(t, "free_list_head")
    /\ (Len(t.nodes) % U8Mod) + 1 >= U8Mod

\* from_bytes_mut up to that sum: the capacity is written and the new slots
\* are on the free list
from_bytes_mut_aborted(t) ==
    absorb_loop(set_field(t, "capacity", Len(t.nodes) % U8Mod),
                get_field(t, "capacity"), Len(t.nodes) % U8Mod)

\* The buffer enlarged to n node slots, the new ones zeroed.
Enlarged(n) ==
    [allocator |-> allocator,
     nodes |-> nodes \o [i \in 1 .. n - Len(nodes) |-> ZeroNode]]

\* The tree still lives in the buffer it was initialized in.
Small == Len(nodes) <= WideStart

\* The first buffer is enlarged to n zeroed node slots and viewed again.
GrowWide(n) ==
    /\ ~last.panic
    /\ Small
    /\ Viewed(from_bytes_mut(Enlarged(n)), GrowKind(Tree))

\* The same in a build with overflow checks, when the sum overflows: the
\* call aborts after the loop.
GrowWideChecked(n) ==
    /\ ~last.panic
    /\ Small
    /\ from_bytes_mut_overflows(Enlarged(n))
    /\ allocator' = from_bytes_mut_aborted(Enlarged(n)).allocator
    /\ nodes' = from_bytes_mut_aborted(Enlarged(n)).nodes
    /\ bytes' = [bytes EXCEPT !.len = data_len(n)]
    /\ UNCHANGED <<set, str>>
    /\ last' = [op |-> "grow", key |-> 0, value |-> 0, ret |-> None,
                panic |-> TRUE, kind |-> GrowKind(Tree), rot |-> 0]
    /\ UNCHANGED <<expected, net, handed>>

\* A zeroed buffer of WideStart node slots or one less, initialized.
InitWide ==
    \E cap \in WideStart - 1 .. WideStart :
        /\ allocator = U8Allocator_initialize(cap)
        /\ nodes = [i \in 1 .. cap |-> ZeroNode]
        /\ bytes = [len |-> data_len(cap), addr |-> 0]
        /\ set = NoSet
        /\ str = NoStr
        /\ last = [op |-> "initialize", key |-> 0, value |-> 0, ret |-> None,
                   panic |-> FALSE, kind |-> "none", rot |-> 0]
        /\ expected = [k \in Keys |-> None]
        /\ net = 0
        /\ handed = {}

\* inserts and removes of a few keys in the first buffer, its enlargement to
\* a buffer of about 255 slots in either build, and inserts and removes after
NextGrowWide ==
    \/ \E key \in WideKeys, value \in Values : Insert(key, value)
    \/ \E key \in WideKeys : Remove(key)
    \/ \E n \in WideTargets : GrowWide(n)
    \/ \E n \in WideTargets : GrowWideChecked(n)

SpecGrowWide == InitWide /\ [][NextGrowWide]_vars

\* C36: capacity() never decreases: a mutable view over a buffer that holds
\* more node slots than the recorded capacity yields a capacity() that is not
\* smaller than before and equals the number of node slots of the buffer,
\* for every buffer size, more than 255 slots included.
C36_CapacityGrows ==
    [][ (last'.op = "grow" /\ Len(nodes') > capacity(Tree)) =>
            /\ ~last'.panic
            /\ capacity(TreeNext) >= capacity(Tree)
            /\ capacity(TreeNext) = Len(nodes')
      ]_vars

----------------------------------------------------------------------------
\* C34: when a mutable view is built over a buffer with M more slots than the
\* recorded capacity C while free_list_head # sequence, afterwards capacity()
\* is C + M, sequence is C + M + 1, free_list_head is C + M, each appended
\* slot links to the next lower one, and slot C + 1 links to the
\* free_list_head of before (the appended slots are ahead of the slots that
\* were free already).
C34_NotPackedGrowth ==
    [][ ( /\ last'.op = "grow"
          /\ Len(nodes') > capacity(Tree)
          /\ get_field(Tree, "free_list_head") # get_field(Tree, "sequence") )
        =>
            /\ ~last'.panic
            /\ capacity(TreeNext) = Len(nodes')
            /\ get_field(TreeNext, "sequence") = Len(nodes') + 1
            /\ get_field(TreeNext, "free_list_head") = Len(nodes')
            /\ \A j \in capacity(Tree) + 2 .. Len(nodes') :
                   get_register(TreeNext, j, "Height") = j - 1
            /\ get_register(TreeNext, capacity(Tree) + 1, "Height")
                   = get_field(Tree, "free_list_head")
      ]_vars

----------------------------------------------------------------------------
\* The indices returned by the inserts of the keys of ks, one after the
\* other, each with its payload; SENTINEL for an insert that returned None
\* or aborted.
RECURSIVE insert_indices(_, _)
insert_indices(t, ks) ==
    IF ks = <<>> THEN <<>>
    ELSE IF insert(t, Head(ks), PayloadOf(Head(ks))).ret.some
    THEN <<insert(t, Head(ks), PayloadOf(Head(ks))).ret.val>>
             \o insert_indices(insert(t, Head(ks), PayloadOf(Head(ks))).t,
                               Tail(ks))
    ELSE <<SENTINEL>>

\* C35: when a mutable view is built over a larger buffer while
\* free_list_head = sequence, only the capacity field changes: root, size,
\* free_list_head and sequence are as before, the old slots are as before and
\* the appended slots are as the caller supplied them; the inserts of new
\* keys that follow, as many as there are slots left, return the indices
\* sequence, sequence + 1, ... in increasing order.
C35_PackedGrowth ==
    [][ ( /\ last'.op = "grow"
          /\ Len(nodes') > capacity(Tree)
          /\ get_field(Tree, "free_list_head") = get_field(Tree, "sequence") )
        =>
            /\ ~last'.panic
            /\ allocator' = [allocator EXCEPT !.capacity = Len(nodes')]
            /\ SubSeq(nodes', 1, Len(nodes)) = nodes
            /\ \A j \in Len(nodes) + 1 .. Len(nodes') : nodes'[j] = ZeroNode
            /\ \A n \in 0 .. Len(nodes') - len(Tree) :
                   \A ks \in NewKeySeqs(TreeNext, n) :
                       insert_indices(TreeNext, ks)
                           = [j \in 1 .. n |->
                                  get_field(Tree, "sequence") + j - 1]
      ]_vars

\* a tree that holds one entry in its only slot has been viewed over a
\* buffer of four slots: three inserts can follow
C35_Witness ==
    /\ last.op = "grow"
    /\ last.kind = "full"
    /\ len(Tree) = 1
    /\ capacity(Tree) = 4
    /\ get_field(Tree, "sequence") = 2
    /\ get_field(Tree, "free_list_head") = 2

----------------------------------------------------------------------------
\* The bytes a caller may leave in the region it appends to the buffer: the
\* registers of an appended node record are 0 or name slot 1.
DirtyRegisters == {0, 1}

DirtyNodes ==
    [Left : DirtyRegisters, Right : DirtyRegisters, Height : DirtyRegisters,
     key : {0}, value : {0}]

\* The buffers that take records of any content have at most DirtySlots
\* node slots.
DirtySlots == 3

\* A zeroed buffer of at most DirtySlots node slots, initialized.
InitDirty ==
    \E cap \in 0 .. DirtySlots :
        /\ allocator = U8Allocator_initialize(cap)
        /\ nodes = [i \in 1 .. cap |-> ZeroNode]
        /\ bytes = [len |-> data_len(cap), addr |-> 0]
        /\ set = NoSet
        /\ str = NoStr
        /\ last = [op |-> "initialize", key |-> 0, value |-> 0, ret |-> None,
                   panic |-> FALSE, kind |-> "none", rot |-> 0]
        /\ expected = [k \in Keys |-> None]
        /\ net = 0
        /\ handed = {}

\* No slot is met twice on the way down from the root. The loops of find,
\* insert and remove end on such a tree; on another they may never end.
Sound(t) ==
    \A i \in Reachable(t) :
        Cardinality(Parents(t, i)) = IF i = get_field(t, "root") THEN 0 ELSE 1

\* The buffer is enlarged by one node record holding the bytes of node, and
\* viewed again.
GrowDirty(node) ==
    /\ ~last.panic
    /\ Sound(Tree)
    /\ Len(nodes) + 1 <= DirtySlots
    /\ Viewed(from_bytes_mut([allocator |-> allocator,
                              nodes |-> Append(nodes, node)]),
              GrowKind(Tree))

\* insert and remove, with the buffer enlarged at any point by a node record
\* of any content
NextDirty ==
    \/ \E key \in Keys, value \in Values : Sound(Tree) /\ Insert(key, value)
    \/ \E key \in Keys : Sound(Tree) /\ Remove(key)
    \/ \E node \in DirtyNodes : GrowDirty(node)

SpecDirty == InitDirty /\ [][NextDirty]_vars

\* The node add hands to insert for linking has no children and height 0.
LeafWhenLinked(a) ==
    /\ get_register(a.t, a.index, "Left") = SENTINEL
    /\ get_register(a.t, a.index, "Right") = SENTINEL
    /\ get_register(a.t, a.index, "Height") = 0

\* C37: every node is a leaf at the moment insert links it into the tree
\* (left = right = NIL, height = 0), whether its slot was never used, was
\* freed earlier or was appended by growth, whatever bytes the appended
\* region contained.
C37_LinkedAsLeaf ==
    [][ (last'.op = "insert" /\ last'.ret.some) =>
            /\ add(Tree, last'.key, last'.value).index = last'.ret.val
            /\ LeafWhenLinked(add(Tree, last'.key, last'.value))
      ]_vars

----------------------------------------------------------------------------
\* The tree remove hands to remove_node: the node is unlinked and the path
\* rebalanced (r is what remove returned).
BeforeFree(r) == rebalance(r.pre, r.path)

\* What remove_node(index) makes of the tree before: the slot holds the
\* default key and value, NIL in left and right and the free_list_head of
\* before in height; free_list_head is index and size is one less; every
\* other slot and header field is as before.
Freed(before, after, index) ==
    /\ after.nodes[index] =
           [Left |-> SENTINEL, Right |-> SENTINEL,
            Height |-> get_field(before, "free_list_head"),
            key |-> 0, value |-> 0]
    /\ get_field(after, "free_list_head") = index
    /\ get_field(after, "size") = get_field(before, "size") - 1
    /\ get_field(after, "root") = get_field(before, "root")
    /\ get_field(after, "capacity") = get_field(before, "capacity")
    /\ get_field(after, "sequence") = get_field(before, "sequence")
    /\ Len(after.nodes) = Len(before.nodes)
    /\ \A j \in 1 .. Len(before.nodes) :
           j # index => after.nodes[j] = before.nodes[j]

\* C38: freeing a slot (remove_node on index i) resets the node's key and
\* value to their defaults and its left and right registers to NIL, stores
\* the previous free_list_head in its height register, makes i the new
\* free_list_head and decrements size by exactly one; no other slot and no
\* other header field changes.
C38_FreeSlot ==
    [][ (last'.op = "remove" /\ last'.ret.some) =>
            Freed(BeforeFree(remove(Tree, last'.key)), TreeNext,
                  find(Tree, last'.key).val)
      ]_vars

\* a node with two children was removed while an older freed slot waited:
\* the height register of the slot freed names that older slot
C38_Witness ==
    /\ last.op = "remove"
    /\ last.kind = "two"
    /\ last.ret.some
    /\ ValidIndex(Tree, get_field(Tree, "free_list_head"))
    /\ get_register(Tree, get_field(Tree, "free_list_head"), "Height")
           \in handed \ Reachable(Tree)

----------------------------------------------------------------------------
\* A call of left_rotate or right_rotate: the function, the tree it is made
\* on and the node it is given.
RotateCall(fn, t, index) == [fn |-> fn, t |-> t, index |-> index]

\* The calls one iteration of the loop of rebalance makes on path entry e:
\* none, one rotation, or a rotation of the child and then one of the node.
RotateCalls(t, e) ==
    LET left == get_register(t, e.child, "Left")
        right == get_register(t, e.child, "Right")
        bf == balance_factor(t, left, right)
    IN IF bf > 1
       THEN IF balance_factor(t, get_register(t, left, "Left"),
                              get_register(t, left, "Right")) < 0
            THEN {RotateCall("left_rotate", t, left),
                  RotateCall("right_rotate",
                             update_child(left_rotate(t, left).t, e.child,
                                          "Left", left_rotate(t, left).index),
                             e.child)}
            ELSE {RotateCall("right_rotate", t, e.child)}
       ELSE IF bf < -1
       THEN IF balance_factor(t, get_register(t, right, "Left"),
                              get_register(t, right, "Right")) > 0
            THEN {RotateCall("right_rotate", t, right),
                  RotateCall("left_rotate",
                             update_child(right_rotate(t, right).t, e.child,
                                          "Right", right_rotate(t, right).index),
                             e.child)}
            ELSE {RotateCall("left_rotate", t, e.child)}
       ELSE {}

\* The calls rebalance makes on the path, visited in reverse order.
RECURSIVE AllRotateCalls(_, _)
AllRotateCalls(t, path) ==
    IF path = <<>> THEN {}
    ELSE RotateCalls(t, path[Len(path)])
             \cup AllRotateCalls(rebalance_step(t, path[Len(path)]),
                                 SubSeq(path, 1, Len(path) - 1))

\* The keys of the subtree at i in order: left subtree, node, right subtree.
RECURSIVE InOrder(_, _, _)
InOrder(t, i, fuel) ==
    IF fuel = 0 \/ ~ValidIndex(t, i) THEN <<>>
    ELSE InOrder(t, t.nodes[i].Left, fuel - 1) \o <<t.nodes[i].key>>
             \o InOrder(t, t.nodes[i].Right, fuel - 1)

\* The height register of i agrees with those of its children.
HeightRefreshed(t, i) == update_height(t, i) = t

\* The rotation of node n of tree t below its child r on the side up (down
\* is the other side) has returned tree u and index root: r is returned; n
\* has r's former down child as its up child and r has n as its down child;
\* n's height was refreshed before r's, so both agree with their children;
\* the keys of the subtree are in the same order; no key, no value, no other
\* register and no header field has changed.
Rotated(t, n, r, up, down, u, root) ==
    /\ r # SENTINEL
    /\ root = r
    /\ get_register(u, n, up) = get_register(t, r, down)
    /\ get_register(u, r, down) = n
    /\ get_register(u, n, down) = get_register(t, n, down)
    /\ get_register(u, r, up) = get_register(t, r, up)
    /\ HeightRefreshed(u, n)
    /\ HeightRefreshed(u, r)
    /\ InOrder(u, r, Len(t.nodes)) = InOrder(t, n, Len(t.nodes))
    /\ u.allocator = t.allocator
    /\ Len(u.nodes) = Len(t.nodes)
    /\ \A j \in 1 .. Len(t.nodes) :
           /\ u.nodes[j].key = t.nodes[j].key
           /\ u.nodes[j].value = t.nodes[j].value
           /\ j \notin {n, r} => u.nodes[j] = t.nodes[j]

\* The call c, which returned res, rotated its node that way.
RotatedRight(c, res) ==
    IF c.fn = "left_rotate"
    THEN Rotated(c.t, c.index, get_register(c.t, c.index, "Right"),
                 "Right", "Left", res.t, res.index)
    ELSE Rotated(c.t, c.index, get_register(c.t, c.index, "Left"),
                 "Left", "Right", res.t, res.index)

\* Every rotation made by the call that returned r did so.
RotationsRight(r) ==
    \A c \in AllRotateCalls(r.pre, r.path) :
        RotatedRight(c, IF c.fn = "left_rotate" THEN left_rotate(c.t, c.index)
                        ELSE right_rotate(c.t, c.index))

\* C39: left_rotate(n) on a node with right child r returns r, leaves n with
\* r's former left child as its right child and r with n as its left child,
\* refreshes n's height before r's, preserves the in-order sequence of the
\* keys of the subtree, and changes no key, no value and no node outside
\* {n, r}; right_rotate is the mirror image. It holds of every rotation an
\* insert or a remove makes.
C39_Rotations ==
    [][ /\ last'.op = "insert" =>
               RotationsRight(insert(Tree, last'.key, last'.value))
        /\ last'.op = "remove" => RotationsRight(remove(Tree, last'.key))
      ]_vars

\* a remove from the right subtree of a tree of seven nodes made rebalance
\* rotate, and the node moved down to the right of the root has taken a left
\* child over
C39_Witness ==
    /\ last.op = "remove"
    /\ last.ret.some
    /\ last.rot >= 1
    /\ len(Tree) = DeepSlots - 1
    /\ last.key > nodes[get_field(Tree, "root")].key
    /\ get_register(Tree, get_field(Tree, "root"), "Right") # SENTINEL
    /\ get_register(Tree, get_register(Tree, get_field(Tree, "root"), "Right"),
                    "Left") # SENTINEL

====
